---------------------------- MODULE Spec2Model ----------------------------
(***************************************************************************)
(* spriteswarm: webhook dispatcher, match engine, template renderer,       *)
(* executor and cron scheduler.                                            *)
(*                                                                         *)
(* JavaScript strings are TLA+ strings; where the code looks inside a      *)
(* string (regular expressions, split, trim, slice) the string is read     *)
(* through Chars, its sequence of characters.  JavaScript values are       *)
(* tagged records: [t |-> "undefined"], [t |-> "null"],                    *)
(* [t |-> "boolean", b], [t |-> "number", n], [t |-> "string", s] and      *)
(* [t |-> "object", o] with o a function from keys to values.              *)
(***************************************************************************)
EXTENDS Integers, Sequences, FiniteSets, TLC

VARIABLES
    catalog,         \* the external KV store: automation id -> record, or NoAutomation
    env,             \* process.env: the configured secrets ("" when not set)
    adminOps,        \* number of administrative catalog mutations so far
    scheduledTasks,  \* scheduler.ts scheduledTasks: automation id -> timer handle
    timers,          \* the ScheduledTasks created by cron.schedule and not stopped
    syncs,           \* suspended syncCronJobs calls, by call number
    syncCalls,       \* number of syncCronJobs calls started so far
    req,             \* the webhook request being handled
    requests,        \* number of webhook requests received so far
    lastOp           \* the step just taken: what it read, decided and did

vars == <<catalog, env, adminOps, scheduledTasks, timers, syncs, syncCalls,
          req, requests, lastOp>>

(***************************************************************************)
(* Bounds of the model.                                                    *)
(***************************************************************************)
MaxAdminOps == 2
MaxSyncCalls == 2
MaxRequests == 1
MaxExpressions == 2

(***************************************************************************)
(* Strings and their characters.                                           *)
(***************************************************************************)
StringTable ==
       ("" :> <<>>)
    @@ ("ping" :> <<"p","i","n","g">>)
    @@ ("pong" :> <<"p","o","n","g">>)
    @@ ("opened" :> <<"o","p","e","n","e","d">>)
    @@ ("closed" :> <<"c","l","o","s","e","d">>)
    @@ ("action" :> <<"a","c","t","i","o","n">>)
    @@ ("user" :> <<"u","s","e","r">>)
    @@ ("name" :> <<"n","a","m","e">>)
    @@ ("ann" :> <<"a","n","n">>)
    @@ ("type" :> <<"t","y","p","e">>)
    @@ ("event" :> <<"e","v","e","n","t">>)
    @@ ("payload" :> <<"p","a","y","l","o","a","d">>)
    @@ ("sha256=" :> <<"s","h","a","2","5","6","=">>)
    @@ ("v0=" :> <<"v","0","=">>)
    @@ ("sprite" :> <<"s","p","r","i","t","e">>)
    @@ ("workdir" :> <<"w","o","r","k","d","i","r">>)
    @@ ("path" :> <<"p","a","t","h">>)
    @@ ("cmd" :> <<"c","m","d">>)
    @@ ("claude" :> <<"c","l","a","u","d","e">>)
    @@ ("/app" :> <<"/","a","p","p">>)
    @@ ("-p" :> <<"-","p">>)
    @@ ("box1" :> <<"b","o","x","1">>)
    @@ ("box2" :> <<"b","o","x","2">>)
    @@ ("payload.action == \"opened\"" :> <<"p","a","y","l","o","a","d",".","a","c","t","i","o","n"," ","=","="," ","\"","o","p","e","n","e","d","\"">>)
    @@ ("payload.action != \"closed\"" :> <<"p","a","y","l","o","a","d",".","a","c","t","i","o","n"," ","!","="," ","\"","c","l","o","s","e","d","\"">>)
    @@ ("payload.action" :> <<"p","a","y","l","o","a","d",".","a","c","t","i","o","n">>)
    @@ ("hello {{payload.user.name}}" :> <<"h","e","l","l","o"," ","{","{","p","a","y","l","o","a","d",".","u","s","e","r",".","n","a","m","e","}","}">>)
    @@ ("cd {{sprite.workdir}}" :> <<"c","d"," ","{","{","s","p","r","i","t","e",".","w","o","r","k","d","i","r","}","}">>)
    @@ ("* * * * *" :> <<"*"," ","*"," ","*"," ","*"," ","*">>)
    @@ ("0 2 * * *" :> <<"0"," ","2"," ","*"," ","*"," ","*">>)
    @@ ("every day" :> <<"e","v","e","r","y"," ","d","a","y">>)
    @@ ("challenge" :> <<"c","h","a","l","l","e","n","g","e">>)
    @@ ("c1" :> <<"c","1">>)
    @@ ("c2" :> <<"c","2">>)
    @@ ("url_verification" :> <<"u","r","l","_","v","e","r","i","f","i","c","a","t","i","o","n">>)
    @@ ("event_callback" :> <<"e","v","e","n","t","_","c","a","l","l","b","a","c","k">>)
    @@ ("1000" :> <<"1","0","0","0">>)
    @@ ("699" :> <<"6","9","9">>)
    @@ ("soon" :> <<"s","o","o","n">>)
    @@ ("deploy" :> <<"d","e","p","l","o","y">>)
    @@ ("bad {{payload.action" :> <<"b","a","d"," ","{","{","p","a","y","l","o","a","d",".","a","c","t","i","o","n">>)
    @@ (" and " :> <<" ","a","n","d"," ">>)
    @@ ("cd " :> <<"c","d"," ">>)
    @@ ("sprite.workdir" :> <<"s","p","r","i","t","e",".","w","o","r","k","d","i","r">>)
    @@ ("sprite.name" :> <<"s","p","r","i","t","e",".","n","a","m","e">>)
    @@ ("[object Object] and " :> <<"[","o","b","j","e","c","t"," ","O","b","j","e","c","t","]"," ","a","n","d"," ">>)
    @@ ("hello 42" :> <<"h","e","l","l","o"," ","4","2">>)
    @@ (" == " :> <<" ","=","="," ">>)
    @@ (" != " :> <<" ","!","="," ">>)
    @@ ("==" :> <<"=","=">>)
    @@ ("!=" :> <<"!","=">>)
    @@ ("constructor" :> <<"c","o","n","s","t","r","u","c","t","o","r">>)
    @@ ("__proto__" :> <<"_","_","p","r","o","t","o","_","_">>)
    @@ ("[object Object]" :> <<"[","o","b","j","e","c","t"," ","O","b","j","e","c","t","]">>)
    @@ ("function Object() { [native code] }" :> <<"f","u","n","c","t","i","o","n"," ","O","b","j","e","c","t","(",")"," ","{"," ","[","n","a","t","i","v","e"," ","c","o","d","e","]"," ","}">>)
    @@ ("a!=b" :> <<"a","!","=","b">>)
    @@ ("a==b" :> <<"a","=","=","b">>)
    @@ ("missing" :> <<"m","i","s","s","i","n","g">>)
    @@ ("payload.user.name" :> <<"p","a","y","l","o","a","d",".","u","s","e","r",".","n","a","m","e">>)
    @@ ("payload.action.name" :> <<"p","a","y","l","o","a","d",".","a","c","t","i","o","n",".","n","a","m","e">>)
    @@ ("payload.missing" :> <<"p","a","y","l","o","a","d",".","m","i","s","s","i","n","g">>)
    @@ ("payload.missing.name" :> <<"p","a","y","l","o","a","d",".","m","i","s","s","i","n","g",".","n","a","m","e">>)
    @@ ("payload.constructor" :> <<"p","a","y","l","o","a","d",".","c","o","n","s","t","r","u","c","t","o","r">>)
    @@ ("payload.__proto__" :> <<"p","a","y","l","o","a","d",".","_","_","p","r","o","t","o","_","_">>)
    @@ ("payload.constructor.name" :> <<"p","a","y","l","o","a","d",".","c","o","n","s","t","r","u","c","t","o","r",".","n","a","m","e">>)
    @@ ("payload.user" :> <<"p","a","y","l","o","a","d",".","u","s","e","r">>)
    @@ ("user.name" :> <<"u","s","e","r",".","n","a","m","e">>)
    @@ ("\"opened\"" :> <<"\"","o","p","e","n","e","d","\"">>)
    @@ ("\"closed\"" :> <<"\"","c","l","o","s","e","d","\"">>)
    @@ ("\"a!=b\"" :> <<"\"","a","!","=","b","\"">>)
    @@ ("\"a==b\"" :> <<"\"","a","=","=","b","\"">>)
    @@ ("\"ann\"" :> <<"\"","a","n","n","\"">>)
    @@ ("42" :> <<"4","2">>)
    @@ ("true" :> <<"t","r","u","e">>)
    @@ ("\"[object Object]\"" :> <<"\"","[","o","b","j","e","c","t"," ","O","b","j","e","c","t","]","\"">>)
    @@ ("payload.action == \"a!=b\"" :> <<"p","a","y","l","o","a","d",".","a","c","t","i","o","n"," ","=","="," ","\"","a","!","=","b","\"">>)
    @@ ("payload.action = \"opened\"" :> <<"p","a","y","l","o","a","d",".","a","c","t","i","o","n"," ","="," ","\"","o","p","e","n","e","d","\"">>)
    @@ ("payload.user.name == \"ann\"" :> <<"p","a","y","l","o","a","d",".","u","s","e","r",".","n","a","m","e"," ","=","="," ","\"","a","n","n","\"">>)
    @@ ("hello " :> <<"h","e","l","l","o"," ">>)
    @@ ("hello ann" :> <<"h","e","l","l","o"," ","a","n","n">>)
    @@ ("{{payload.action}} and {{payload.user.name}}" :> <<"{","{","p","a","y","l","o","a","d",".","a","c","t","i","o","n","}","}"," ","a","n","d"," ","{","{","p","a","y","l","o","a","d",".","u","s","e","r",".","n","a","m","e","}","}">>)
    @@ ("no tokens here" :> <<"n","o"," ","t","o","k","e","n","s"," ","h","e","r","e">>)
    @@ ("a } b { c" :> <<"a"," ","}"," ","b"," ","{"," ","c">>)
    @@ ("{{sprite.name}}" :> <<"{","{","s","p","r","i","t","e",".","n","a","m","e","}","}">>)
    @@ ("{{ payload.action }}" :> <<"{","{"," ","p","a","y","l","o","a","d",".","a","c","t","i","o","n"," ","}","}">>)
    @@ ("end {{" :> <<"e","n","d"," ","{","{">>)
    @@ ("{{payload.n}}" :> <<"{","{","p","a","y","l","o","a","d",".","n","}","}">>)
    @@ ("{{payload}}" :> <<"{","{","p","a","y","l","o","a","d","}","}">>)
    @@ ("guess" :> <<"g","u","e","s","s">>)
    @@ ("gh-secret" :> <<"g","h","-","s","e","c","r","e","t">>)
    @@ ("sl-secret" :> <<"s","l","-","s","e","c","r","e","t">>)
    @@ ("1300" :> <<"1","3","0","0">>)
    @@ ("1301" :> <<"1","3","0","1">>)
    @@ ("700" :> <<"7","0","0">>)
    @@ ("2000" :> <<"2","0","0","0">>)
    @@ ("12abc" :> <<"1","2","a","b","c">>)

Chars(s) == StringTable[s]

Undefined == [t |-> "undefined"]
Null == [t |-> "null"]
Bool(b) == [t |-> "boolean", b |-> b]
Num(n) == [t |-> "number", n |-> n]
Str(s) == [t |-> "string", s |-> s]
Obj(f) == [t |-> "object", o |-> f]
EmptyObj == Obj([k \in {} |-> Undefined])

IsNullish(v) == v.t \in {"undefined", "null"}

\* \s of the regular expressions and the white space String.prototype.trim removes
IsSpace(c) == c \in {" ", "\t"}

RECURSIVE TrimLeft(_)
TrimLeft(cs) ==
    IF cs # <<>> /\ IsSpace(Head(cs)) THEN TrimLeft(Tail(cs)) ELSE cs

RECURSIVE TrimRight(_)
TrimRight(cs) ==
    IF cs # <<>> /\ IsSpace(cs[Len(cs)]) THEN TrimRight(SubSeq(cs, 1, Len(cs) - 1)) ELSE cs

Trim(cs) == TrimLeft(TrimRight(cs))

\* the least p >= from with cs[p] = a and cs[p+1] = b, or 0 when there is none
IndexOfPair(cs, a, b, from) ==
    LET hits == {p \in from..(Len(cs) - 1) : cs[p] = a /\ cs[p + 1] = b}
    IN  IF hits = {} THEN 0 ELSE CHOOSE p \in hits : \A q \in hits : p <= q

\* String.prototype.split on a one-character separator
RECURSIVE Split(_, _)
Split(cs, sep) ==
    LET hits == {p \in 1..Len(cs) : cs[p] = sep}
    IN  IF hits = {} THEN <<cs>>
        ELSE LET p == CHOOSE h \in hits : \A q \in hits : h <= q
             IN  <<SubSeq(cs, 1, p - 1)>> \o Split(SubSeq(cs, p + 1, Len(cs)), sep)

RECURSIVE Concat(_)
Concat(seqs) == IF seqs = <<>> THEN <<>> ELSE Head(seqs) \o Concat(Tail(seqs))


(***************************************************************************)
(* matcher.ts: path resolver and match evaluator.                          *)
(***************************************************************************)
\* the own property part of a value parsed from JSON
OwnProp(v, part) ==
    LET keys == {k \in DOMAIN v.o : Chars(k) = part}
    IN  IF keys = {} THEN Undefined ELSE v.o[CHOOSE k \in keys : TRUE]

\* Object and Object.prototype, which every object parsed from JSON inherits
\* from; typeof Object is "function"
ObjectFunction == [t |-> "function", s |-> "function Object() { [native code] }"]
ObjectPrototype == [t |-> "object", o |-> [k \in {} |-> Undefined], prototype |-> TRUE]

\* current[part] on a value whose typeof is "object": the own property, or
\* else the property inherited from Object.prototype (of its properties,
\* constructor and __proto__)
Prop(v, part) ==
    LET own == OwnProp(v, part)
    IN  IF own # Undefined THEN own
        ELSE IF part = Chars("constructor") THEN ObjectFunction
        ELSE IF part = Chars("__proto__")
             THEN IF "prototype" \in DOMAIN v THEN Null ELSE ObjectPrototype
        ELSE Undefined

RECURSIVE WalkPath(_, _, _)
WalkPath(current, parts, i) ==
    IF i > Len(parts) THEN current
    ELSE IF IsNullish(current) THEN Undefined
    ELSE IF current.t # "object" THEN Undefined
    ELSE WalkPath(Prop(current, parts[i]), parts, i + 1)

getNestedValue(obj, path) == WalkPath(obj, Split(path, "."), 1)

Digits == <<"0", "1", "2", "3", "4", "5", "6", "7", "8", "9">>
IsDigit(c) == c \in {Digits[d] : d \in 1..10}
DigitValue(c) ==
    [x \in {Digits[d] : d \in 1..10} |-> (CHOOSE d \in 1..10 : Digits[d] = x) - 1][c]

\* the number that the decimal digits cs denote
DigitsValue(cs) ==
    LET RECURSIVE ValueOfFirst(_)
        ValueOfFirst(n) ==
            IF n = 0 THEN 0 ELSE 10 * ValueOfFirst(n - 1) + DigitValue(cs[n])
    IN  ValueOfFirst(Len(cs))

NaN == [nan |-> TRUE, n |-> 0]
Finite(n) == [nan |-> FALSE, n |-> n]

\* Number(string), for the decimal integers: "" is 0, anything else is NaN
ToNumber(cs) ==
    LET t == Trim(cs)
        body == IF t # <<>> /\ t[1] \in {"-", "+"} THEN Tail(t) ELSE t
    IN  IF t = <<>> THEN Finite(0)
        ELSE IF body # <<>> /\ \A i \in 1..Len(body) : IsDigit(body[i])
             THEN Finite(IF t[1] = "-" THEN 0 - DigitsValue(body) ELSE DigitsValue(body))
             ELSE NaN

\* a parsed literal: [t |-> "boolean", b], [t |-> "number", n] or
\* [t |-> "string", chars]
parseLiteral(value) ==
    LET trimmed == Trim(value)
        n == Len(trimmed)
        num == ToNumber(trimmed)
    IN  IF trimmed = <<"t", "r", "u", "e">> THEN Bool(TRUE)
        ELSE IF trimmed = <<"f", "a", "l", "s", "e">> THEN Bool(FALSE)
        ELSE IF n >= 1 /\ (\/ (trimmed[1] = "\"" /\ trimmed[n] = "\"")
                           \/ (trimmed[1] = "'" /\ trimmed[n] = "'"))
             THEN [t |-> "string", chars |-> SubSeq(trimmed, 2, n - 1)]
        ELSE IF ~num.nan THEN Num(num.n)
        ELSE [t |-> "string", chars |-> trimmed]

ObjectObject == <<"[", "o", "b", "j", "e", "c", "t", " ", "O", "b", "j", "e", "c", "t", "]">>

\* the characters of a payload value used as a primitive string
PrimitiveChars(v) == IF v.t = "object" THEN ObjectObject ELSE Chars(v.s)

NumberOf(v) ==
    CASE v.t = "number" -> Finite(v.n)
      [] v.t = "boolean" -> Finite(IF v.b THEN 1 ELSE 0)
      [] v.t = "string" -> ToNumber(Chars(v.s))
      [] v.t \in {"object", "function"} -> NaN

LiteralNumber(lit) ==
    CASE lit.t = "number" -> Finite(lit.n)
      [] lit.t = "boolean" -> Finite(IF lit.b THEN 1 ELSE 0)
      [] lit.t = "string" -> ToNumber(lit.chars)

\* actualValue == expectedValue, the loose equality of JavaScript
LooseEquals(actual, lit) ==
    IF IsNullish(actual) THEN FALSE
    ELSE IF actual.t \in {"string", "object", "function"} /\ lit.t = "string"
         THEN PrimitiveChars(actual) = lit.chars
    ELSE LET a == NumberOf(actual)
             b == LiteralNumber(lit)
         IN  ~a.nan /\ ~b.nan /\ a.n = b.n

\* expression.match(/^(.+?)\s*OP\s*(.+)$/) for the two-character operator
\* c1 c2: the lazy first group ends before the first operator that has a
\* character in front of it, and something must follow the operator.
MatchOperator(expression, c1, c2) ==
    LET p == IndexOfPair(expression, c1, c2, 2)
    IN  IF p = 0 \/ p + 2 > Len(expression)
        THEN [found |-> FALSE, path |-> <<>>, literalStr |-> <<>>]
        ELSE [found |-> TRUE,
              path |-> SubSeq(expression, 1, p - 1),
              literalStr |-> SubSeq(expression, p + 2, Len(expression))]

\* evaluateExpression that lets an expression without operator pass
evaluateExpressionFailOpen(expression, context) ==
    LET neqMatch == MatchOperator(expression, "!", "=")
        eqMatch == MatchOperator(expression, "=", "=")
    IN  IF neqMatch.found
        THEN ~LooseEquals(getNestedValue(context, Trim(neqMatch.path)),
                          parseLiteral(neqMatch.literalStr))
        ELSE IF eqMatch.found
        THEN LooseEquals(getNestedValue(context, Trim(eqMatch.path)),
                         parseLiteral(eqMatch.literalStr))
        ELSE TRUE

evaluateExpression(expression, context) ==
    LET neqMatch == MatchOperator(expression, "!", "=")
        eqMatch == MatchOperator(expression, "=", "=")
    IN  IF neqMatch.found
        THEN ~LooseEquals(getNestedValue(context, Trim(neqMatch.path)),
                          parseLiteral(neqMatch.literalStr))
        ELSE IF eqMatch.found
        THEN LooseEquals(getNestedValue(context, Trim(eqMatch.path)),
                         parseLiteral(eqMatch.literalStr))
        ELSE FALSE

\* an optional list of match expressions: string[] | undefined
NoExpressions == [defined |-> FALSE, list |-> <<>>]
Expressions(list) == [defined |-> TRUE, list |-> list]

\* evaluateMatches without the default for an undefined list
evaluateMatchesNoDefault(expressions, payload) ==
    /\ expressions.defined
    /\ LET context == Obj([k \in {"payload"} |-> payload])
       IN  \A i \in 1..Len(expressions.list) :
               evaluateExpression(Chars(expressions.list[i]), context)

\* evaluateMatches that decides on the first expression alone
evaluateMatchesFirstOnly(expressions, payload) ==
    IF ~expressions.defined \/ Len(expressions.list) = 0 THEN TRUE
    ELSE evaluateExpression(Chars(expressions.list[1]), Obj([k \in {"payload"} |-> payload]))

evaluateMatches(expressions, payload) ==
    IF ~expressions.defined \/ Len(expressions.list) = 0 THEN TRUE
    ELSE LET context == Obj([k \in {"payload"} |-> payload])
         IN  \A i \in 1..Len(expressions.list) :
                 evaluateExpression(Chars(expressions.list[i]), context)

(***************************************************************************)
(* template.ts: Mustache.render with HTML escaping disabled, for templates *)
(* whose tags are variable tags {{ name }}.                                *)
(***************************************************************************)
\* String(value) of a looked-up value that is not null or undefined
RECURSIVE NatChars(_)
NatChars(n) ==
    IF n < 10 THEN <<Digits[n + 1]>> ELSE NatChars(n \div 10) \o <<Digits[(n % 10) + 1]>>

Stringify(v) ==
    CASE v.t = "string" -> Chars(v.s)
      [] v.t = "number" -> IF v.n < 0 THEN <<"-">> \o NatChars(0 - v.n) ELSE NatChars(v.n)
      [] v.t = "boolean" -> IF v.b THEN <<"t", "r", "u", "e">> ELSE <<"f", "a", "l", "s", "e">>
      [] v.t = "object" -> ObjectObject

\* Context.lookup of a (dotted) name in the view, for names that are not
\* names of properties of Object.prototype
RECURSIVE LookupNames(_, _, _)
LookupNames(value, names, i) ==
    IF i > Len(names) \/ IsNullish(value) THEN value
    ELSE LookupNames(IF value.t = "object" THEN OwnProp(value, names[i]) ELSE Undefined,
                     names, i + 1)

Lookup(view, name) == LookupNames(view, Split(name, "."), 1)

\* the parser and the writer in one pass over the template from position i;
\* the result is [ok |-> TRUE, out] or [ok |-> FALSE, error] when the parser throws
RECURSIVE RenderFrom(_, _, _)
RenderFrom(template, view, i) ==
    LET n == Len(template)
        open == IndexOfPair(template, "{", "{", i)
    IN  IF open = 0 THEN [ok |-> TRUE, out |-> SubSeq(template, i, n)]
        ELSE LET close == IndexOfPair(template, "}", "}", open + 2)
             IN  IF close = 0 THEN [ok |-> FALSE, error |-> "Unclosed tag"]
                 ELSE LET name == Trim(SubSeq(template, open + 2, close - 1))
                          value == Lookup(view, name)
                          rest == RenderFrom(template, view, close + 2)
                          text == SubSeq(template, i, open - 1)
                                     \o (IF IsNullish(value) THEN <<>> ELSE Stringify(value))
                      IN  IF rest.ok THEN [ok |-> TRUE, out |-> text \o rest.out]
                          ELSE rest

\* render that passes the payload as the view
renderPayloadView(template, context) == RenderFrom(template, OwnProp(context, Chars("payload")), 1)

\* context is the TemplateContext {payload, sprite}
render(template, context) == RenderFrom(template, context, 1)

(***************************************************************************)
(* executor.ts                                                             *)
(***************************************************************************)
SpriteValue(sprite) == Obj([k \in DOMAIN sprite |-> Str(sprite[k])])

OptionalField(r, k) == IF k \in DOMAIN r THEN r[k] ELSE ""

\* execute that renders and calls without looking at SPRITES_TOKEN
executeStartNoTokenCheck(automation, payload, spritesToken) ==
    LET context == Obj([k \in {"payload", "sprite"} |->
                          IF k = "payload" THEN payload ELSE SpriteValue(automation.sprite)])
        prompt == render(Chars(automation.run), context)
    IN  IF ~prompt.ok
        THEN [call |-> FALSE, rendered |-> TRUE,
              result |-> [automationId |-> automation.id, success |-> FALSE,
                          error |-> prompt.error]]
        ELSE [call |-> TRUE, rendered |-> TRUE,
              request |-> [sprite |-> automation.sprite.name,
                           path |-> automation.sprite.path,
                           cmd |-> OptionalField(automation.sprite, "cmd"),
                           dir |-> OptionalField(automation.sprite, "workdir"),
                           stdin |-> TRUE,
                           bearer |-> spritesToken,
                           body |-> prompt.out]]

\* execute up to its first await: either a result at once, or the outbound
\* call it issues; rendered tells whether render was called
executeStart(automation, payload, spritesToken) ==
    IF spritesToken = ""
    THEN [call |-> FALSE, rendered |-> FALSE,
          result |-> [automationId |-> automation.id, success |-> FALSE,
                      error |-> "SPRITES_TOKEN not configured"]]
    ELSE LET context == Obj([k \in {"payload", "sprite"} |->
                               IF k = "payload" THEN payload ELSE SpriteValue(automation.sprite)])
             prompt == render(Chars(automation.run), context)
         IN  IF ~prompt.ok
             THEN [call |-> FALSE, rendered |-> TRUE,
                   result |-> [automationId |-> automation.id, success |-> FALSE,
                               error |-> prompt.error]]
             ELSE [call |-> TRUE, rendered |-> TRUE,
                   request |-> [sprite |-> automation.sprite.name,
                                path |-> automation.sprite.path,
                                cmd |-> OptionalField(automation.sprite, "cmd"),
                                dir |-> OptionalField(automation.sprite, "workdir"),
                                stdin |-> TRUE,
                                bearer |-> spritesToken,
                                body |-> prompt.out]]

\* the outcomes of the awaited fetch: a success status, the status 500 with
\* the response body "boom", or a promise rejected with "fetch failed"
FetchOutcomes == {"ok", "status", "network"}

\* execute after its await
executeFinish(automation, outcome) ==
    CASE outcome = "ok" -> [automationId |-> automation.id, success |-> TRUE, error |-> ""]
      [] outcome = "status" -> [automationId |-> automation.id, success |-> FALSE,
                                error |-> "Sprites API error: 500 - boom"]
      [] outcome = "network" -> [automationId |-> automation.id, success |-> FALSE,
                                 error |-> "fetch failed"]


(***************************************************************************)
(* process.env: the environments the process is started in.                *)
(***************************************************************************)
GithubSecret == "gh-secret"
SlackSecret == "sl-secret"

Environments ==
    { [SPRITES_TOKEN |-> "token", GITHUB_WEBHOOK_SECRET |-> GithubSecret,
       SLACK_WEBHOOK_SECRET |-> SlackSecret],
      [SPRITES_TOKEN |-> "", GITHUB_WEBHOOK_SECRET |-> GithubSecret,
       SLACK_WEBHOOK_SECRET |-> SlackSecret],
      [SPRITES_TOKEN |-> "token", GITHUB_WEBHOOK_SECRET |-> "",
       SLACK_WEBHOOK_SECRET |-> SlackSecret] }

(***************************************************************************)
(* types.ts: automations.                                                  *)
(***************************************************************************)
AutomationIds == {"a1", "a2"}

\* the order in which the KV store lists its keys
KeyOrder == <<"a1", "a2">>

NoAutomation == [id |-> ""]

isWebhookSource(source) == source.type # "cron" /\ "events" \in DOMAIN source
isCronSource(source) == source.type = "cron" /\ "schedule" \in DOMAIN source

Sprite1 == [name |-> "box1", path |-> "claude", cmd |-> "-p", workdir |-> "/app"]
Sprite2 == [name |-> "box2", path |-> "claude"]

CronAutomation(id, schedule, run) ==
    [id |-> id, sprite |-> Sprite1, source |-> [type |-> "cron", schedule |-> schedule],
     run |-> run]

WebhookAutomation(id, type, events, match, run) ==
    [id |-> id, sprite |-> Sprite2, source |-> [type |-> type, events |-> events],
     match |-> match, run |-> run]

\* the automations an administrator uploads under one id
CronDefinitions(id) ==
    { CronAutomation(id, "* * * * *", "deploy"),
      CronAutomation(id, "0 2 * * *", "cd {{sprite.workdir}}"),
      CronAutomation(id, "every day", "deploy") }

WebhookDefinitions(id) ==
    { WebhookAutomation(id, "github", <<"ping">>, <<>>, "hello {{payload.user.name}}"),
      WebhookAutomation(id, "github", <<"ping", "pong">>,
                        <<"payload.action == \"opened\"">>, "deploy"),
      WebhookAutomation(id, "slack", <<"ping">>, <<>>, "bad {{payload.action"),
      WebhookAutomation(id, "slack", <<"ping">>, <<>>, "deploy"),
      WebhookAutomation(id, "github", <<"ping">>, <<"payload.action">>, "deploy") }

\* node-cron validate: five or six fields separated by spaces, each made of
\* digits and the characters * / , -
CronFieldChars == {"*", "/", ",", "-"}

cronValidate(schedule) ==
    LET fields == Split(Trim(Chars(schedule)), " ")
    IN  /\ Len(fields) \in {5, 6}
        /\ \A i \in 1..Len(fields) :
              /\ fields[i] # <<>>
              /\ \A j \in 1..Len(fields[i]) :
                    IsDigit(fields[i][j]) \/ fields[i][j] \in CronFieldChars

(***************************************************************************)
(* storage/kv.ts: the catalog loader.  A load is a process: one request    *)
(* that lists the keys, then one request per listed id.                    *)
(***************************************************************************)
RECURSIVE SelectIds(_, _)
SelectIds(cat, i) ==
    IF i > Len(KeyOrder) THEN <<>>
    ELSE (IF cat[KeyOrder[i]] # NoAutomation THEN <<KeyOrder[i]>> ELSE <<>>)
             \o SelectIds(cat, i + 1)

\* listAutomationIds, answered by the store as it is now
listAutomationIds(cat) == SelectIds(cat, 1)

\* a load that has just been called
LoadStart == [pc |-> "list", ids |-> <<>>, idx |-> 1, automations |-> <<>>]

\* loadAllAutomations resumed with the answer to its list request
LoadListed(load, cat) ==
    LET ids == listAutomationIds(cat)
    IN  [pc |-> IF ids = <<>> THEN "loaded" ELSE "get",
         ids |-> ids, idx |-> 1, automations |-> <<>>]

\* loadAllAutomations resumed with the answer to getAutomation(ids[idx]):
\* a 404 is null and is skipped
LoadGot(load, cat) ==
    LET automation == cat[load.ids[load.idx]]
        automations == IF automation = NoAutomation THEN load.automations
                       ELSE Append(load.automations, automation)
    IN  [pc |-> IF load.idx = Len(load.ids) THEN "loaded" ELSE "get",
         ids |-> load.ids, idx |-> load.idx + 1, automations |-> automations]


(***************************************************************************)
(* cron/scheduler.ts.  The scheduler's data is the record                  *)
(* [tasks, timers, stopped]: the scheduledTasks map, the running timers    *)
(* by handle, and the handles stopped so far in the current step.  A       *)
(* handle is the identity of a ScheduledTask object: a new object is none  *)
(* of the running ones and none of those stopped in the same step.         *)
(***************************************************************************)
Scheduler == [tasks |-> scheduledTasks, timers |-> timers, stopped |-> {}]

Without(f, k) == [x \in DOMAIN f \ {k} |-> f[x]]

\* task.stop() on the task recorded for id, then scheduledTasks.delete(id)
StopAndDelete(st, id) ==
    [st EXCEPT !.tasks = Without(st.tasks, id),
               !.timers = Without(st.timers, st.tasks[id]),
               !.stopped = st.stopped \cup {st.tasks[id]}]

\* the identity of the object a cron.schedule call creates
NewHandle(st) ==
    LET used == DOMAIN st.timers \cup st.stopped
    IN  CHOOSE h \in 1..(Cardinality(used) + 1) :
            h \notin used /\ \A g \in 1..(h - 1) : g \in used

\* cron.schedule(schedule, callback): the callback closes over automation
NewTimer(automation) ==
    [id |-> automation.id, schedule |-> automation.source.schedule,
     automation |-> automation]

\* registerCronJob without the stop of the existing task
registerCronJobNoStop(st, automation) ==
    IF ~isCronSource(automation.source) THEN [st |-> st, ok |-> FALSE]
    ELSE IF ~cronValidate(automation.source.schedule) THEN [st |-> st, ok |-> FALSE]
    ELSE LET task == NewHandle(st)
         IN  [st |-> [st EXCEPT !.tasks = (automation.id :> task) @@ Without(st.tasks, automation.id),
                                !.timers = (task :> NewTimer(automation)) @@ st.timers],
              ok |-> TRUE]

\* registerCronJob that keeps the task of an id registered with the same schedule
registerCronJobKeep(st, automation) ==
    IF ~isCronSource(automation.source) THEN [st |-> st, ok |-> FALSE]
    ELSE IF ~cronValidate(automation.source.schedule) THEN [st |-> st, ok |-> FALSE]
    ELSE IF /\ automation.id \in DOMAIN st.tasks
            /\ st.timers[st.tasks[automation.id]].schedule = automation.source.schedule
         THEN [st |-> st, ok |-> TRUE]
    ELSE LET s1 == IF automation.id \in DOMAIN st.tasks
                   THEN StopAndDelete(st, automation.id) ELSE st
             task == NewHandle(s1)
         IN  [st |-> [s1 EXCEPT !.tasks = (automation.id :> task) @@ s1.tasks,
                                !.timers = (task :> NewTimer(automation)) @@ s1.timers],
              ok |-> TRUE]

registerCronJob(st, automation) ==
    IF ~isCronSource(automation.source) THEN [st |-> st, ok |-> FALSE]
    ELSE IF ~cronValidate(automation.source.schedule) THEN [st |-> st, ok |-> FALSE]
    ELSE LET s1 == IF automation.id \in DOMAIN st.tasks
                   THEN StopAndDelete(st, automation.id) ELSE st
             task == NewHandle(s1)
         IN  [st |-> [s1 EXCEPT !.tasks = (automation.id :> task) @@ s1.tasks,
                                !.timers = (task :> NewTimer(automation)) @@ s1.timers],
              ok |-> TRUE]

\* unregisterCronJob that deletes the entry and leaves its task running
unregisterCronJobNoStop(st, automationId) ==
    IF automationId \in DOMAIN st.tasks
    THEN [st |-> [st EXCEPT !.tasks = Without(st.tasks, automationId)], ok |-> TRUE]
    ELSE [st |-> st, ok |-> FALSE]

unregisterCronJob(st, automationId) ==
    IF automationId \in DOMAIN st.tasks
    THEN [st |-> StopAndDelete(st, automationId), ok |-> TRUE]
    ELSE [st |-> st, ok |-> FALSE]

RECURSIVE StopEach(_, _)
StopEach(st, ids) ==
    IF ids = {} THEN st
    ELSE LET id == CHOOSE x \in ids : TRUE
         IN  StopEach(unregisterCronJob(st, id).st, ids \ {id})

\* every task is stopped, then the map is cleared
stopAllCronJobs(st) == StopEach(st, DOMAIN st.tasks)

\* the register loop that ends at the first automation it cannot register
RECURSIVE RegisterEachStopAtInvalid(_, _, _)
RegisterEachStopAtInvalid(acc, cronAutomations, i) ==
    IF i > Len(cronAutomations) THEN acc
    ELSE LET r == registerCronJob(acc.st, cronAutomations[i])
         IN  IF ~r.ok
             THEN [st |-> r.st, registered |-> acc.registered, failed |-> acc.failed + 1]
             ELSE RegisterEachStopAtInvalid([st |-> r.st,
                                             registered |-> acc.registered + 1,
                                             failed |-> acc.failed],
                                            cronAutomations, i + 1)

RECURSIVE RegisterEach(_, _, _)
RegisterEach(acc, cronAutomations, i) ==
    IF i > Len(cronAutomations) THEN acc
    ELSE LET r == registerCronJob(acc.st, cronAutomations[i])
         IN  RegisterEach([st |-> r.st,
                           registered |-> acc.registered + (IF r.ok THEN 1 ELSE 0),
                           failed |-> acc.failed + (IF r.ok THEN 0 ELSE 1)],
                          cronAutomations, i + 1)

IsCronAutomation(a) == isCronSource(a.source)

\* syncCronJobs without the loop that stops the jobs that no longer exist
syncApplyNoDrop(st, automations) ==
    RegisterEach([st |-> st, registered |-> 0, failed |-> 0],
                 SelectSeq(automations, IsCronAutomation), 1)

\* syncCronJobs after its await, with the automations the load returned
syncApply(st, automations) ==
    LET cronAutomations == SelectSeq(automations, IsCronAutomation)
        cronIds == {cronAutomations[i].id : i \in 1..Len(cronAutomations)}
        kept == StopEach(st, {id \in DOMAIN st.tasks : id \notin cronIds})
    IN  RegisterEach([st |-> kept, registered |-> 0, failed |-> 0], cronAutomations, 1)

(***************************************************************************)
(* Steps of the scheduler.                                                 *)
(***************************************************************************)
Idle == [pc |-> "idle"]

SetScheduler(st) ==
    /\ scheduledTasks' = st.tasks
    /\ timers' = st.timers

\* syncCronJobs is called: it runs up to the await of loadAllAutomations
SyncCall ==
    /\ syncCalls < MaxSyncCalls
    /\ syncCalls' = syncCalls + 1
    /\ syncs' = (syncCalls + 1 :> LoadStart) @@ syncs
    /\ lastOp' = [kind |-> "syncCall"]
    /\ UNCHANGED <<catalog, env, adminOps, scheduledTasks, timers, req, requests>>

\* the call c resumes with the loaded automations and runs to its return
SyncReturn(c, load) ==
    LET r == syncApply(Scheduler, load.automations)
    IN  /\ SetScheduler(r.st)
        /\ syncs' = Without(syncs, c)
        /\ lastOp' = [kind |-> "sync", loaded |-> TRUE,
                      fetched |-> load.automations,
                      before |-> scheduledTasks, timersBefore |-> timers,
                      stopped |-> r.st.stopped,
                      registered |-> r.registered, failed |-> r.failed]

\* a catch of syncCronJobs that stops every job
SyncFailedStopsAll(c) ==
    /\ syncs' = Without(syncs, c)
    /\ SetScheduler(stopAllCronJobs(Scheduler))
    /\ lastOp' = [kind |-> "sync", loaded |-> FALSE,
                  fetched |-> <<>>,
                  before |-> scheduledTasks, timersBefore |-> timers,
                  stopped |-> {}, registered |-> 0, failed |-> 0]

\* the catch of syncCronJobs: the load threw
SyncFailed(c) ==
    /\ syncs' = Without(syncs, c)
    /\ lastOp' = [kind |-> "sync", loaded |-> FALSE,
                  fetched |-> <<>>,
                  before |-> scheduledTasks, timersBefore |-> timers,
                  stopped |-> {}, registered |-> 0, failed |-> 0]
    /\ UNCHANGED <<scheduledTasks, timers>>

SyncProgress(c, load) ==
    IF load.pc = "loaded" THEN SyncReturn(c, load)
    ELSE /\ syncs' = [syncs EXCEPT ![c] = load]
         /\ lastOp' = [kind |-> "load"]
         /\ UNCHANGED <<scheduledTasks, timers>>

\* the list request of call c is answered
SyncListed(c) ==
    /\ c \in DOMAIN syncs /\ syncs[c].pc = "list"
    /\ SyncProgress(c, LoadListed(syncs[c], catalog))
    /\ UNCHANGED <<catalog, env, adminOps, syncCalls, req, requests>>

\* a getAutomation request of call c is answered
SyncGot(c) ==
    /\ c \in DOMAIN syncs /\ syncs[c].pc = "get"
    /\ SyncProgress(c, LoadGot(syncs[c], catalog))
    /\ UNCHANGED <<catalog, env, adminOps, syncCalls, req, requests>>

\* a request of the load of call c fails
SyncLoadError(c) ==
    /\ c \in DOMAIN syncs
    /\ SyncFailed(c)
    /\ UNCHANGED <<catalog, env, adminOps, syncCalls, req, requests>>

UnregisterCall(id) ==
    LET r == unregisterCronJob(Scheduler, id)
    IN  /\ SetScheduler(r.st)
        /\ lastOp' = [kind |-> "unregister", id |-> id, ok |-> r.ok]
        /\ UNCHANGED <<catalog, env, adminOps, syncs, syncCalls, req, requests>>

StopAllCall ==
    /\ SetScheduler(stopAllCronJobs(Scheduler))
    /\ lastOp' = [kind |-> "stopAll"]
    /\ UNCHANGED <<catalog, env, adminOps, syncs, syncCalls, req, requests>>

\* a timer callback that stops its timer when the execution failed
TimerFireStopsOnFailure(h, outcome) ==
    /\ h \in DOMAIN timers
    /\ LET start == executeStart(timers[h].automation, Undefined, env.SPRITES_TOKEN)
           result == IF start.call THEN executeFinish(timers[h].automation, outcome)
                     ELSE start.result
       IN  /\ start.call \/ outcome = "ok"
           /\ lastOp' = [kind |-> "fire", handle |-> h, id |-> timers[h].id,
                         automation |-> timers[h].automation,
                         called |-> start.call, result |-> result]
           /\ timers' = IF result.success THEN timers
                        ELSE [x \in DOMAIN timers \ {h} |-> timers[x]]
    /\ UNCHANGED <<catalog, env, adminOps, scheduledTasks, syncs,
                   syncCalls, req, requests>>

\* the timer h fires: its callback runs execute(automation) with no payload
\* and logs the result
TimerFire(h, outcome) ==
    /\ h \in DOMAIN timers
    /\ LET start == executeStart(timers[h].automation, Undefined, env.SPRITES_TOKEN)
       IN  /\ start.call \/ outcome = "ok"
           /\ lastOp' = [kind |-> "fire", handle |-> h, id |-> timers[h].id,
                         automation |-> timers[h].automation,
                         called |-> start.call,
                         result |-> IF start.call
                                    THEN executeFinish(timers[h].automation, outcome)
                                    ELSE start.result]
    /\ UNCHANGED <<catalog, env, adminOps, scheduledTasks, timers, syncs,
                   syncCalls, req, requests>>

(***************************************************************************)
(* routes/admin.ts: the administrative catalog operations.                 *)
(***************************************************************************)
\* POST /admin/automations with a valid YAML body and the admin token
AdminPost(automation) ==
    /\ adminOps < MaxAdminOps
    /\ adminOps' = adminOps + 1
    /\ catalog' = [catalog EXCEPT ![automation.id] = automation]
    /\ lastOp' = [kind |-> "adminPost", id |-> automation.id]
    /\ UNCHANGED <<env, scheduledTasks, timers, syncs, syncCalls, req, requests>>

\* a DELETE /admin/automations/:id that unregisters the cron job of the id
AdminDeleteUnregisters(id) ==
    /\ adminOps < MaxAdminOps
    /\ catalog[id] # NoAutomation
    /\ adminOps' = adminOps + 1
    /\ catalog' = [catalog EXCEPT ![id] = NoAutomation]
    /\ SetScheduler(unregisterCronJob(Scheduler, id).st)
    /\ lastOp' = [kind |-> "adminDelete", id |-> id]
    /\ UNCHANGED <<env, syncs, syncCalls, req, requests>>

\* DELETE /admin/automations/:id of a stored automation
AdminDelete(id) ==
    /\ adminOps < MaxAdminOps
    /\ catalog[id] # NoAutomation
    /\ adminOps' = adminOps + 1
    /\ catalog' = [catalog EXCEPT ![id] = NoAutomation]
    /\ lastOp' = [kind |-> "adminDelete", id |-> id]
    /\ UNCHANGED <<env, scheduledTasks, timers, syncs, syncCalls, req, requests>>

\* the uploads of the scheduler's specification: the cron automations and
\* one webhook automation
Uploads(id) ==
    CronDefinitions(id)
        \cup {WebhookAutomation(id, "github", <<"ping">>, <<>>, "hello {{payload.user.name}}")}

(***************************************************************************)
(* The scheduler with the administrative operations.  The process starts   *)
(* with initCronScheduler's syncCronJobs call suspended in its load.       *)
(***************************************************************************)
EmptyMap == [x \in {} |-> 0]

InitCron ==
    /\ catalog = [id \in AutomationIds |-> NoAutomation]
    /\ env \in {e \in Environments : e.GITHUB_WEBHOOK_SECRET # ""}
    /\ adminOps = 0
    /\ scheduledTasks = EmptyMap
    /\ timers = EmptyMap
    /\ syncs = (1 :> LoadStart)
    /\ syncCalls = 1
    /\ req = Idle
    /\ requests = 0
    /\ lastOp = [kind |-> "init"]

NextCron ==
    \/ SyncCall
    \/ \E c \in DOMAIN syncs : SyncListed(c)
    \/ \E c \in DOMAIN syncs : SyncGot(c)
    \/ \E c \in DOMAIN syncs : SyncLoadError(c)
    \/ \E id \in AutomationIds : UnregisterCall(id)
    \/ StopAllCall
    \/ \E h \in DOMAIN timers, outcome \in FetchOutcomes : TimerFire(h, outcome)
    \/ \E id \in AutomationIds : \E a \in Uploads(id) : AdminPost(a)
    \/ \E id \in AutomationIds : AdminDelete(id)

SpecCron == InitCron /\ [][NextCron]_vars

\* The scheduler when every load succeeds, every stored schedule is valid and
\* nothing but syncCronJobs is called on the live-set: overlapping
\* reconciliations, and administrative operations that all come before the
\* last syncCronJobs call begins.
NextOverlap ==
    \/ SyncCall
    \/ \E c \in DOMAIN syncs : SyncListed(c)
    \/ \E c \in DOMAIN syncs : SyncGot(c)
    \/ /\ syncCalls < MaxSyncCalls
       /\ \E id \in AutomationIds :
             \E a \in {u \in Uploads(id) :
                          isCronSource(u.source) => cronValidate(u.source.schedule)} :
                 AdminPost(a)
    \/ /\ syncCalls < MaxSyncCalls
       /\ \E id \in AutomationIds : AdminDelete(id)

SpecOverlap == InitCron /\ [][NextOverlap]_vars


(***************************************************************************)
(* adapters: github.ts and slack.ts.  A request is                         *)
(* [source, headers, body]; headers maps the names of the headers sent to  *)
(* their values.  HMAC-SHA256 is an ideal keyed hash: the digest of a      *)
(* message under a key is the pair <<key, message>>, and a signature       *)
(* header value is [prefix, digest, length].                               *)
(***************************************************************************)
HexDigestLength == 64

createHmac(secret, message) == <<secret, message>>

Signature(prefix, digest) ==
    [prefix |-> prefix, digest |-> digest, length |-> Len(Chars(prefix)) + HexDigestLength]

\* request.headers.get(name) of a text header: "" stands for null
Header(request, name) ==
    IF name \in DOMAIN request.headers THEN request.headers[name] ELSE ""

\* request.headers.get(name) is not null
HasHeader(request, name) == name \in DOMAIN request.headers

\* Buffer lengths are compared first, then timingSafeEqual compares the bytes
SafeEqual(signature, expectedSignature) ==
    /\ signature.length = expectedSignature.length
    /\ signature = expectedSignature

\* validate that compares the lengths of the two signatures only
githubValidateLengthOnly(request, secret) ==
    LET expectedSignature == Signature("sha256=", createHmac(secret, <<request.body>>))
    IN  IF ~HasHeader(request, "X-Hub-Signature-256") THEN FALSE
        ELSE request.headers["X-Hub-Signature-256"].length = expectedSignature.length

githubValidate(request, secret) ==
    LET expectedSignature == Signature("sha256=", createHmac(secret, <<request.body>>))
    IN  IF ~HasHeader(request, "X-Hub-Signature-256") THEN FALSE
        ELSE SafeEqual(request.headers["X-Hub-Signature-256"], expectedSignature)

githubGetEventType(request) ==
    IF Header(request, "X-GitHub-Event") = "" THEN Str("unknown")
    ELSE Str(Header(request, "X-GitHub-Event"))

MAX_REQUEST_AGE_SECONDS == 300

\* Math.floor(Date.now() / 1000) when the request is validated
Now == 1000

\* parseInt(string, 10): the leading decimal digits, NaN when there are none
RECURSIVE LeadingDigits(_)
LeadingDigits(cs) ==
    IF cs # <<>> /\ IsDigit(Head(cs)) THEN <<Head(cs)>> \o LeadingDigits(Tail(cs)) ELSE <<>>

parseInt(cs) ==
    LET t == TrimLeft(cs)
        neg == t # <<>> /\ t[1] = "-"
        body == IF t # <<>> /\ t[1] \in {"-", "+"} THEN Tail(t) ELSE t
        digits == LeadingDigits(body)
    IN  IF digits = <<>> THEN NaN
        ELSE Finite(IF neg THEN 0 - DigitsValue(digits) ELSE DigitsValue(digits))

Abs(n) == IF n < 0 THEN 0 - n ELSE n

slackValidate(request, secret) ==
    LET timestamp == Header(request, "X-Slack-Request-Timestamp")
        requestTimestamp == parseInt(Chars(timestamp))
        sigBaseString == <<"v0:", timestamp, ":", request.body>>
        expectedSignature == Signature("v0=", createHmac(secret, sigBaseString))
    IN  IF timestamp = "" \/ ~HasHeader(request, "X-Slack-Signature") THEN FALSE
        \* a comparison with NaN is false
        ELSE IF ~requestTimestamp.nan /\ Abs(Now - requestTimestamp.n) > MAX_REQUEST_AGE_SECONDS
             THEN FALSE
        ELSE SafeEqual(request.headers["X-Slack-Signature"], expectedSignature)

\* agentmailAdapter.validate: the signature check is commented out
agentmailValidate(request, secret) == TRUE

\* genericAdapter.validate: the header X-Webhook-Secret against the secret
genericValidate(request, secret) ==
    LET providedSecret == Header(request, "X-Webhook-Secret")
    IN  IF providedSecret = "" THEN FALSE
        ELSE /\ Len(Chars(secret)) = Len(Chars(providedSecret))
             /\ secret = providedSecret

slackGetEventType(request) ==
    IF Header(request, "X-Slack-Event-Type") = "" THEN Str("unknown")
    ELSE Str(Header(request, "X-Slack-Event-Type"))

HasString(payload, key) ==
    /\ payload.t = "object"
    /\ key \in DOMAIN payload.o
    /\ payload.o[key].t = "string"

isUrlVerification(payload) ==
    /\ payload.t = "object"
    /\ "type" \in DOMAIN payload.o
    /\ payload.o["type"] = Str("url_verification")
    /\ "challenge" \in DOMAIN payload.o
    /\ payload.o["challenge"].t = "string"

\* typeof null is "object"
isEventCallback(payload) ==
    /\ payload.t = "object"
    /\ "type" \in DOMAIN payload.o
    /\ payload.o["type"] = Str("event_callback")
    /\ "event" \in DOMAIN payload.o
    /\ payload.o["event"].t \in {"object", "null"}

\* the result is a JavaScript value, or Throws when payload.event is null
Throws == [t |-> "throws"]

getSlackEventType(payload) ==
    IF isUrlVerification(payload) THEN Str("url_verification")
    ELSE IF isEventCallback(payload)
         THEN IF payload.o["event"].t = "null" THEN Throws
              ELSE IF "type" \in DOMAIN payload.o["event"].o THEN payload.o["event"].o["type"]
              ELSE Undefined
    ELSE IF HasString(payload, "type") THEN payload.o["type"]
    ELSE Str("unknown")

\* request.json() of the bodies that are sent; "not json" does not parse
JsonTable ==
       ("{\"action\":\"opened\",\"user\":{\"name\":\"ann\"}}" :>
            Obj(("action" :> Str("opened")) @@ ("user" :> Obj("name" :> Str("ann")))))
    @@ ("{\"action\":\"closed\"}" :> Obj("action" :> Str("closed")))
    @@ ("{}" :> EmptyObj)
    @@ ("{\"type\":\"url_verification\",\"challenge\":\"c1\"}" :>
            Obj(("type" :> Str("url_verification")) @@ ("challenge" :> Str("c1"))))
    @@ ("{\"type\":\"url_verification\",\"challenge\":\"c2\"}" :>
            Obj(("type" :> Str("url_verification")) @@ ("challenge" :> Str("c2"))))
    @@ ("{\"type\":\"event_callback\",\"event\":{\"type\":\"ping\"}}" :>
            Obj(("type" :> Str("event_callback")) @@ ("event" :> Obj("type" :> Str("ping")))))
    @@ ("not json" :> Throws)

parsePayload(request) == JsonTable[request.body]

(***************************************************************************)
(* index.ts and routes/webhook.ts: the adapter registry and the handler    *)
(* of POST /webhook/:source.  The request being handled is the record req: *)
(* the request, the handler's locals, its position pc, the response, and   *)
(* trace, the external calls the handler has made so far, in order.        *)
(***************************************************************************)
\* adapters.set in index.ts
adapters == {"github", "slack"}

\* a registry whose adapters validate as agentmailAdapter does
adapterValidateUnchecked(sourceName, request, secret) ==
    agentmailValidate(request, secret)

adapterValidate(sourceName, request, secret) ==
    IF sourceName = "github" THEN githubValidate(request, secret)
    ELSE slackValidate(request, secret)

adapterGetEventType(sourceName, request) ==
    IF sourceName = "github" THEN githubGetEventType(request)
    ELSE slackGetEventType(request)

\* process.env[`${sourceName.toUpperCase()}_WEBHOOK_SECRET`]
WebhookSecret(sourceName) ==
    CASE sourceName = "github" -> env.GITHUB_WEBHOOK_SECRET
      [] sourceName = "slack" -> env.SLACK_WEBHOOK_SECRET
      [] OTHER -> ""

\* c.json(body, status): results is the result list of the body, if it has one
Respond(r, status, message) ==
    [r EXCEPT !.pc = "responded",
              !.response = [status |-> status, message |-> message, results |-> <<>>]]

RespondResults(r, status, message, results) ==
    [r EXCEPT !.pc = "responded",
              !.response = [status |-> status, message |-> message, results |-> results]]

NoResponse == [status |-> 0, message |-> "", results |-> <<>>]

\* the handler that calls validate without looking at the secret
handleStartNoSecretCheck(request) ==
    LET r == [pc |-> "validate", request |-> request, isValid |-> FALSE,
              payload |-> Undefined, eventType |-> Undefined, load |-> LoadStart,
              automations |-> <<>>, filtered |-> FALSE,
              matchingAutomations |-> <<>>, pending |-> {}, fetches |-> <<>>,
              results |-> <<>>, bodyUsed |-> FALSE,
              response |-> NoResponse, trace |-> <<>>]
    IN  IF request.source \notin adapters THEN Respond(r, 400, "Unknown source") ELSE r

\* the handler from its start to the await of adapter.validate
handleStart(request) ==
    LET r == [pc |-> "validate", request |-> request, isValid |-> FALSE,
              payload |-> Undefined, eventType |-> Undefined, load |-> LoadStart,
              automations |-> <<>>, filtered |-> FALSE,
              matchingAutomations |-> <<>>, pending |-> {}, fetches |-> <<>>,
              results |-> <<>>, bodyUsed |-> FALSE,
              response |-> NoResponse, trace |-> <<>>]
    IN  IF request.source \notin adapters THEN Respond(r, 400, "Unknown source")
        ELSE IF WebhookSecret(request.source) = ""
             THEN Respond(r, 500, "Webhook secret not configured")
        ELSE r

\* a validate that reads the body with request.text(), without the clone
bodyUsedAfterValidateNoClone(sourceName, bodyUsed) ==
    bodyUsed \/ sourceName \in {"github", "slack"}

\* request.bodyUsed after validate has returned: github and slack read the
\* body of request.clone(), generic reads a header and agentmail reads nothing,
\* so that the stream of the request itself is left as it was
bodyUsedAfterValidate(sourceName, bodyUsed) == bodyUsed

\* the handler that goes on to parse the payload whatever validate returned
handleValidatedNoReject(r) ==
    [r EXCEPT !.isValid = adapterValidate(r.request.source, r.request,
                                          WebhookSecret(r.request.source)),
              !.bodyUsed = bodyUsedAfterValidate(r.request.source, r.bodyUsed),
              !.trace = Append(r.trace, "validate"),
              !.pc = "parse"]

\* the handler resumed with the result of adapter.validate, to the await of
\* adapter.parsePayload
handleValidated(r) ==
    LET isValid == adapterValidate(r.request.source, r.request, WebhookSecret(r.request.source))
        r1 == [r EXCEPT !.isValid = isValid,
                        !.bodyUsed = bodyUsedAfterValidate(r.request.source, r.bodyUsed),
                        !.trace = Append(r.trace, "validate")]
    IN  IF ~isValid THEN Respond(r1, 401, "Invalid signature")
        ELSE [r1 EXCEPT !.pc = "parse"]

\* source.events.includes(eventType)
Includes(events, eventType) ==
    eventType.t = "string" /\ \E i \in 1..Len(events) : events[i] = eventType.s

\* the handler resumed with the parsed payload, to the await of
\* loadAllAutomations; an exception leaves the handler and the framework
\* answers 500
\* the handler without the branch of the URL verification
handleParsedNoHandshake(r) ==
    LET payload == IF r.bodyUsed THEN Throws ELSE parsePayload(r.request)
        sourceName == r.request.source
        eventType == IF sourceName = "slack" THEN getSlackEventType(payload)
                     ELSE adapterGetEventType(sourceName, r.request)
    IN  IF payload = Throws
        THEN Respond([r EXCEPT !.bodyUsed = TRUE], 500, "Internal Server Error")
        ELSE IF eventType = Throws
             THEN Respond([r EXCEPT !.payload = payload, !.bodyUsed = TRUE], 500,
                          "Internal Server Error")
        ELSE [r EXCEPT !.pc = "load", !.payload = payload, !.eventType = eventType,
                       !.bodyUsed = TRUE,
                       !.load = LoadStart, !.trace = Append(r.trace, "load")]

\* the handler resumed with the result of parsePayload; the answer to a URL
\* verification is the body { challenge: payload.challenge }
handleParsed(r) ==
    LET payload == IF r.bodyUsed THEN Throws ELSE parsePayload(r.request)
        sourceName == r.request.source
        eventType == IF sourceName = "slack" THEN getSlackEventType(payload)
                     ELSE adapterGetEventType(sourceName, r.request)
    IN  IF payload = Throws
        THEN Respond([r EXCEPT !.bodyUsed = TRUE], 500, "Internal Server Error")
        ELSE IF sourceName = "slack" /\ isUrlVerification(payload)
             THEN [r EXCEPT !.pc = "responded", !.payload = payload,
                            !.bodyUsed = TRUE,
                            !.response = [status |-> 200, message |-> "",
                                          results |-> <<>>,
                                          challenge |-> payload.o["challenge"]]]
        ELSE IF eventType = Throws
             THEN Respond([r EXCEPT !.payload = payload, !.bodyUsed = TRUE], 500,
                          "Internal Server Error")
        ELSE [r EXCEPT !.pc = "load", !.payload = payload, !.eventType = eventType,
                       !.bodyUsed = TRUE,
                       !.load = LoadStart, !.trace = Append(r.trace, "load")]

MatchOf(automation) ==
    IF "match" \in DOMAIN automation THEN Expressions(automation.match) ELSE NoExpressions

\* the filter without the test of the event type
MatchingAnyEvent(automation, sourceName, eventType, payload) ==
    /\ isWebhookSource(automation.source)
    /\ automation.source.type = sourceName
    /\ evaluateMatches(MatchOf(automation), payload)

\* the predicate of automations.filter
Matching(automation, sourceName, eventType, payload) ==
    /\ isWebhookSource(automation.source)
    /\ automation.source.type = sourceName
    /\ Includes(automation.source.events, eventType)
    /\ evaluateMatches(MatchOf(automation), payload)

IsMatching(r, automation) ==
    Matching(automation, r.request.source, r.eventType, r.payload)

\* the aggregation that reports success when some execution succeeded
handleResultsAny(r) ==
    IF \A i \in 1..Len(r.results) : ~r.results[i].success
    THEN RespondResults(r, 500, "One or more automations failed", r.results)
    ELSE RespondResults(r, 200, "All automations executed successfully", r.results)

\* the aggregation after executeAll has returned
handleResults(r) ==
    IF \E i \in 1..Len(r.results) : ~r.results[i].success
    THEN RespondResults(r, 500, "One or more automations failed", r.results)
    ELSE RespondResults(r, 200, "All automations executed successfully", r.results)

Pending == [automationId |-> "", success |-> FALSE, error |-> "pending"]

\* executeAll that gives up the other executions when one fails at once
executeAllAbortOnFailure(automations, payload, spritesToken) ==
    LET start == [i \in 1..Len(automations) |->
                     executeStart(automations[i], payload, spritesToken)]
        failed == \E i \in 1..Len(automations) : ~start[i].call
    IN  [pending |-> IF failed THEN {} ELSE 1..Len(automations),
         results |-> [i \in 1..Len(automations) |->
                         IF start[i].call THEN Pending ELSE start[i].result],
         calls |-> [i \in 1..Len(automations) |-> automations[i].id],
         fetches |-> [i \in 1..Len(automations) |-> IF failed THEN 0 ELSE 1]]

\* executeAll: execute is called for every automation in order; each call
\* runs to its fetch or returns at once
executeAll(automations, payload, spritesToken) ==
    LET promises(start) ==
            [pending |-> {i \in 1..Len(automations) : start[i].call},
             results |-> [i \in 1..Len(automations) |->
                             IF start[i].call THEN Pending ELSE start[i].result],
             calls |-> [i \in 1..Len(automations) |-> automations[i].id],
             fetches |-> [i \in 1..Len(automations) |-> IF start[i].call THEN 1 ELSE 0]]
    IN  promises([i \in 1..Len(automations) |->
                     executeStart(automations[i], payload, spritesToken)])

\* the handler resumed with the loaded catalog: filter, then executeAll up
\* to the await of its promises
handleLoaded(r, automations) ==
    LET awaited(r1, matchingAutomations, all) ==
            LET answered(r2) == IF all.pending = {} THEN handleResults(r2) ELSE r2
            IN  answered([r1 EXCEPT !.matchingAutomations = matchingAutomations,
                                    !.pending = all.pending, !.fetches = all.fetches,
                                    !.results = all.results,
                                    !.trace = r.trace \o [i \in 1..Len(all.calls) |-> "execute"]])
        filtered(r1, matchingAutomations) ==
            IF Len(matchingAutomations) = 0
            THEN Respond([r1 EXCEPT !.matchingAutomations = <<>>], 200, "No matching automations")
            ELSE awaited(r1, matchingAutomations,
                         executeAll(matchingAutomations, r.payload, env.SPRITES_TOKEN))
    IN  filtered([r EXCEPT !.pc = "execute", !.load = LoadStart,
                           !.automations = automations, !.filtered = TRUE],
                 SelectSeq(automations, LAMBDA a : IsMatching(r, a)))

\* the handler that answers at the first failed execution
handleFetchedFailFast(r, i, outcome) ==
    LET result == executeFinish(r.matchingAutomations[i], outcome)
        r1 == [r EXCEPT !.pending = r.pending \ {i}, !.results[i] = result]
    IN  IF ~result.success
        THEN RespondResults(r1, 500, "One or more automations failed", <<result>>)
        ELSE IF r1.pending = {} THEN handleResults(r1) ELSE r1

\* a fetch whose completion is never delivered to the execution that awaits it
handleFetchedNeverSettles(r, i, outcome) == r

\* the handler that answers when the first execution settles
handleFetchedFirstSettled(r, i, outcome) ==
    LET r1 == [r EXCEPT !.pending = r.pending \ {i},
                        !.results[i] = executeFinish(r.matchingAutomations[i], outcome)]
    IN  handleResults(r1)

\* the handler whose executions call again after a failed call
handleFetchedRetry(r, i, outcome) ==
    LET result == executeFinish(r.matchingAutomations[i], outcome)
        r1 == [r EXCEPT !.pending = r.pending \ {i}, !.results[i] = result]
    IN  IF ~result.success /\ r.fetches[i] < 2
        THEN [r EXCEPT !.fetches[i] = @ + 1]
        ELSE IF r1.pending = {} THEN handleResults(r1) ELSE r1

\* the fetch of execute number i is answered; Promise.all resolves when the
\* last one is
handleFetched(r, i, outcome) ==
    LET r1 == [r EXCEPT !.pending = r.pending \ {i},
                        !.results[i] = executeFinish(r.matchingAutomations[i], outcome)]
    IN  IF r1.pending = {} THEN handleResults(r1) ELSE r1

\* the catch that dispatches what the load had fetched
handleLoadErrorPartial(r) == handleLoaded(r, r.load.automations)

\* the catch around loadAllAutomations
handleLoadError(r) == Respond(r, 500, "Failed to load automations")

(***************************************************************************)
(* Steps of the dispatcher.                                                *)
(***************************************************************************)
GithubSignature(secret, body) == Signature("sha256=", createHmac(secret, <<body>>))
SlackSignature(secret, timestamp, body) ==
    Signature("v0=", createHmac(secret, <<"v0:", timestamp, ":", body>>))

GithubBodies == {"{\"action\":\"opened\",\"user\":{\"name\":\"ann\"}}", "{\"action\":\"closed\"}",
                 "not json"}

\* the requests that senders make
GithubRequests ==
    { [source |-> "github", body |-> body,
       headers |-> ("X-GitHub-Event" :> event) @@ ("X-Hub-Signature-256" :> sig)] :
         body \in GithubBodies, event \in {"ping", "pong"},
         sig \in {GithubSignature(GithubSecret, "{\"action\":\"closed\"}"),
                  GithubSignature(GithubSecret, "{\"action\":\"opened\",\"user\":{\"name\":\"ann\"}}"),
                  GithubSignature("guess", "{\"action\":\"closed\"}")} }
    \cup { [source |-> "github", body |-> "{\"action\":\"closed\"}",
            headers |-> ("X-GitHub-Event" :> "ping")] }

SlackBodies == {"{\"type\":\"url_verification\",\"challenge\":\"c1\"}",
                "{\"type\":\"url_verification\",\"challenge\":\"c2\"}",
                "{\"type\":\"event_callback\",\"event\":{\"type\":\"ping\"}}"}

SlackRequests ==
    { [source |-> "slack", body |-> body,
       headers |-> ("X-Slack-Request-Timestamp" :> ts)
                       @@ ("X-Slack-Signature" :> SlackSignature(SlackSecret, signed, body))] :
         body \in SlackBodies, ts \in {"1000", "699"}, signed \in {"1000", "699"} }

OtherRequests ==
    { [source |-> "generic", body |-> "{}", headers |-> ("X-Webhook-Secret" :> "guess")],
      [source |-> "agentmail", body |-> "{\"event_type\":\"message.received\"}",
       headers |-> ("X-Agentmail-Signature" :> "guess")] }

Requests == GithubRequests \cup SlackRequests \cup OtherRequests

Receive(request) ==
    /\ req.pc \in {"idle", "responded"}
    /\ requests < MaxRequests
    /\ requests' = requests + 1
    /\ req' = handleStart(request)
    /\ lastOp' = [kind |-> "webhook"]
    /\ UNCHANGED <<catalog, env, adminOps, scheduledTasks, timers, syncs, syncCalls>>

Validated ==
    /\ req.pc = "validate"
    /\ req' = handleValidated(req)
    /\ lastOp' = [kind |-> "webhook"]
    /\ UNCHANGED <<catalog, env, adminOps, scheduledTasks, timers, syncs, syncCalls, requests>>

Parsed ==
    /\ req.pc = "parse"
    /\ req' = handleParsed(req)
    /\ lastOp' = [kind |-> "webhook"]
    /\ UNCHANGED <<catalog, env, adminOps, scheduledTasks, timers, syncs, syncCalls, requests>>

HookProgress(load) ==
    IF load.pc = "loaded" THEN handleLoaded(req, load.automations)
    ELSE [req EXCEPT !.load = load]

Listed ==
    /\ req.pc = "load" /\ req.load.pc = "list"
    /\ req' = HookProgress(LoadListed(req.load, catalog))
    /\ lastOp' = [kind |-> "webhook"]
    /\ UNCHANGED <<catalog, env, adminOps, scheduledTasks, timers, syncs, syncCalls, requests>>

Got ==
    /\ req.pc = "load" /\ req.load.pc = "get"
    /\ req' = HookProgress(LoadGot(req.load, catalog))
    /\ lastOp' = [kind |-> "webhook"]
    /\ UNCHANGED <<catalog, env, adminOps, scheduledTasks, timers, syncs, syncCalls, requests>>

LoadError ==
    /\ req.pc = "load"
    /\ req' = handleLoadError(req)
    /\ lastOp' = [kind |-> "loadError"]
    /\ UNCHANGED <<catalog, env, adminOps, scheduledTasks, timers, syncs, syncCalls, requests>>

Fetched(i, outcome) ==
    /\ req.pc = "execute" /\ i \in req.pending
    /\ req' = handleFetched(req, i, outcome)
    /\ lastOp' = [kind |-> "webhook"]
    /\ UNCHANGED <<catalog, env, adminOps, scheduledTasks, timers, syncs, syncCalls, requests>>

\* the uploads of the dispatcher's specification
HookUploads(id) == WebhookDefinitions(id) \cup {CronAutomation(id, "* * * * *", "deploy")}

\* the live-sets the dispatcher starts with: none, or the timer that a
\* reconciliation registered for a cron automation deleted since
LiveSets ==
    {[tasks |-> EmptyMap, timers |-> EmptyMap, stopped |-> {}],
     registerCronJob([tasks |-> EmptyMap, timers |-> EmptyMap, stopped |-> {}],
                     CronAutomation("a1", "* * * * *", "deploy")).st}

Init ==
    /\ catalog \in {[id \in AutomationIds |-> NoAutomation]}
    /\ env \in Environments
    /\ adminOps = 0
    /\ \E st \in LiveSets : scheduledTasks = st.tasks /\ timers = st.timers
    /\ syncs = EmptyMap
    /\ syncCalls = 0
    /\ req = Idle
    /\ requests = 0
    /\ lastOp = [kind |-> "init"]

Next ==
    \/ \E request \in Requests : Receive(request)
    \/ Validated
    \/ Parsed
    \/ Listed
    \/ Got
    \/ LoadError
    \/ \E i \in 1..Cardinality(AutomationIds), outcome \in FetchOutcomes : Fetched(i, outcome)
    \/ \E id \in AutomationIds : \E a \in HookUploads(id) : AdminPost(a)
    \/ \E id \in AutomationIds : AdminDelete(id)
    \/ \E h \in DOMAIN timers, outcome \in FetchOutcomes : TimerFire(h, outcome)

Spec == Init /\ [][Next]_vars

\* The dispatcher over a catalog that the admin routes filled before: the
\* automations of the catalog run the template "deploy".
InitLive ==
    /\ catalog \in
          LET deploys(id) == {u \in WebhookDefinitions(id) : u.run = "deploy"}
                                 \cup {NoAutomation}
          IN  { [id \in AutomationIds |-> IF id = "a1" THEN u1 ELSE u2] :
                   u1 \in deploys("a1"), u2 \in deploys("a2") }
    /\ env \in Environments
    /\ adminOps = 0
    /\ scheduledTasks = EmptyMap
    /\ timers = EmptyMap
    /\ syncs = EmptyMap
    /\ syncCalls = 0
    /\ req = Idle
    /\ requests = 0
    /\ lastOp = [kind |-> "init"]

\* the steps of the webhook route
NextLive ==
    \/ \E request \in Requests : Receive(request)
    \/ Validated
    \/ Parsed
    \/ Listed
    \/ Got
    \/ LoadError
    \/ \E i \in 1..Cardinality(AutomationIds), outcome \in FetchOutcomes : Fetched(i, outcome)

\* the route when every await of the handler is resumed: validate and
\* parsePayload return, the catalog load returns or throws, and every fetch
\* that was issued completes with a status or an error
SpecLive ==
    /\ InitLive
    /\ [][NextLive]_vars
    /\ WF_vars(Validated)
    /\ WF_vars(Parsed)
    /\ WF_vars(Listed \/ Got \/ LoadError)
    /\ WF_vars(\E i \in 1..Cardinality(AutomationIds), outcome \in FetchOutcomes :
                  Fetched(i, outcome))

(***************************************************************************)
(* Calls of the exported functions of matcher.ts, template.ts and the      *)
(* adapters, each on arguments of its parameter types.  A behaviour makes   *)
(* one call, and lastOp records its arguments and what it returned.        *)
(***************************************************************************)
Returned(op) ==
    /\ lastOp.kind = "init"
    /\ lastOp' = op
    /\ UNCHANGED <<catalog, env, adminOps, scheduledTasks, timers, syncs, syncCalls,
                   req, requests>>

\* payload: unknown
Payloads ==
    { Undefined, Null, EmptyObj,
      Obj("action" :> Str("opened")),
      Obj("action" :> Str("closed")),
      Obj("action" :> Str("a!=b")),
      Obj("action" :> Num(42)),
      Obj("action" :> Null),
      Obj(("action" :> Str("opened")) @@ ("user" :> Obj("name" :> Str("ann")))) }

\* the match expressions automations carry
PredicateStrings ==
    { "payload.action == \"opened\"", "payload.action != \"closed\"",
      "payload.user.name == \"ann\"", "payload.action == \"a!=b\"",
      "payload.action", "payload.action = \"opened\"" }

\* the lists of at most n match expressions
RECURSIVE ExpressionLists(_)
ExpressionLists(n) ==
    IF n = 0 THEN {<<>>}
    ELSE LET shorter == ExpressionLists(n - 1)
         IN  shorter \cup {Append(l, e) : l \in {x \in shorter : Len(x) = n - 1},
                                          e \in PredicateStrings}

MatchArguments ==
    {NoExpressions} \cup {Expressions(l) : l \in ExpressionLists(MaxExpressions)}

CallEvaluateMatches(expressions, payload) ==
    Returned([expressions |-> expressions, payload |-> payload,
              result |-> evaluateMatches(expressions, payload),
              kind |-> "evaluateMatches"])

\* the parts of an expression <path> <op> <literal>
PathStrings ==
    { "payload", "payload.action", "payload.user", "payload.user.name",
      "payload.action.name", "payload.missing", "payload.missing.name",
      "payload.constructor", "payload.constructor.name", "payload.__proto__" }
OperatorStrings == {" == ", " != ", "==", "!="}
LiteralStrings ==
    { "\"opened\"", "\"closed\"", "\"a!=b\"", "\"a==b\"", "\"ann\"", "opened", "42", "true",
      "\"[object Object]\"" }

ContextOf(payload) == Obj("payload" :> payload)

CallEvaluateExpression(path, op, literal, payload) ==
    LET expression == Chars(path) \o Chars(op) \o Chars(literal)
    IN  Returned([path |-> path, payload |-> payload,
                  result |-> evaluateExpression(expression, ContextOf(payload)),
                  kind |-> "evaluateExpression", op |-> op, literal |-> literal])

CallGetNestedValue(payload, path) ==
    Returned([obj |-> ContextOf(payload), path |-> path,
              result |-> getNestedValue(ContextOf(payload), Chars(path)),
              kind |-> "getNestedValue"])

\* run templates
TemplateStrings ==
    { "hello {{payload.user.name}}", "{{payload.action}} and {{payload.user.name}}",
      "cd {{sprite.workdir}}", "{{sprite.name}}", "{{payload}}", "{{ payload.action }}",
      "deploy", "no tokens here", "a } b { c", "end {{", "bad {{payload.action" }

\* the TemplateContext execute builds
TemplateContextOf(payload, sprite) ==
    Obj([k \in {"payload", "sprite"} |->
            IF k = "payload" THEN payload ELSE SpriteValue(sprite)])

CallRender(template, payload, sprite) ==
    Returned([payload |-> payload, template |-> template, sprite |-> sprite,
              result |-> render(Chars(template), TemplateContextOf(payload, sprite)),
              kind |-> "render"])

\* a signature header cut short by one character
Truncated(signature) == [signature EXCEPT !.length = @ - 1]

ValidateSecrets == {GithubSecret, SlackSecret}

ValidateBodies == {"{\"action\":\"closed\"}", "{\"action\":", "{}"}

\* requests to the github adapter: signed by a sender that knows a secret
\* over the body sent or over another body, with a truncated signature, or
\* with no signature
GithubValidateRequests ==
    { [source |-> "github", body |-> body,
       headers |-> ("X-GitHub-Event" :> "ping") @@ ("X-Hub-Signature-256" :> sig)] :
         body \in ValidateBodies,
         sig \in {GithubSignature(k, b) : k \in ValidateSecrets \cup {"guess"}, b \in ValidateBodies}
                 \cup {Truncated(GithubSignature(k, b)) : k \in ValidateSecrets, b \in ValidateBodies} }
    \cup { [source |-> "github", body |-> body, headers |-> ("X-GitHub-Event" :> "ping")] :
              body \in ValidateBodies }

CallGithubValidate(request, secret) ==
    Returned([result |-> githubValidate(request, secret), request |-> request,
              kind |-> "githubValidate", secret |-> secret])

TimestampStrings == {"1000", "700", "699", "1300", "1301", "soon", "12abc"}

\* requests to the slack adapter: signed over the timestamp sent or over
\* another one, or with a header missing
SlackValidateRequests ==
    { [source |-> "slack", body |-> body,
       headers |-> ("X-Slack-Request-Timestamp" :> ts) @@ ("X-Slack-Signature" :> sig)] :
         body \in ValidateBodies, ts \in TimestampStrings,
         sig \in {SlackSignature(k, t, b) : k \in ValidateSecrets, t \in TimestampStrings,
                                            b \in {"{}"}} }
    \cup { [source |-> "slack", body |-> "{}",
            headers |-> ("X-Slack-Signature" :> SlackSignature(SlackSecret, "1000", "{}"))],
           [source |-> "slack", body |-> "{}",
            headers |-> ("X-Slack-Request-Timestamp" :> "1000")] }

CallSlackValidate(request, secret) ==
    Returned([result |-> slackValidate(request, secret), request |-> request,
              kind |-> "slackValidate", secret |-> secret])

\* validate of the agentmail and generic adapters, on requests with a
\* signature or secret made with a secret a sender knows, or with none
CallValidate(variant, body, sender, secret) ==
    LET name == IF variant = "agentmail" THEN "X-Agentmail-Signature" ELSE "X-Webhook-Secret"
        value == IF variant = "agentmail" THEN Signature("", createHmac(sender, <<body>>))
                 ELSE sender
        request == [source |-> variant, body |-> body,
                    headers |-> IF sender = "" THEN ("X-Event-Type" :> "ping")
                                ELSE ("X-Event-Type" :> "ping") @@ (name :> value)]
    IN  Returned([result |-> IF variant = "agentmail" THEN agentmailValidate(request, secret)
                             ELSE genericValidate(request, secret),
                  request |-> request, kind |-> "validate", secret |-> secret])

InitCalls ==
    /\ catalog = [id \in AutomationIds |-> NoAutomation]
    /\ env \in Environments
    /\ adminOps = 0
    /\ scheduledTasks = EmptyMap
    /\ timers = EmptyMap
    /\ syncs = EmptyMap
    /\ syncCalls = 0
    /\ req = Idle
    /\ requests = 0
    /\ lastOp = [kind |-> "init"]

\* getSlackEventType applied to a decoded payload
CallGetSlackEventType(payload) ==
    Returned([payload |-> payload, result |-> getSlackEventType(payload),
              kind |-> "getSlackEventType"])

NextCalls ==
    \/ \E expressions \in MatchArguments, payload \in Payloads :
          CallEvaluateMatches(expressions, payload)
    \/ \E path \in PathStrings, op \in OperatorStrings, literal \in LiteralStrings :
          \E payload \in Payloads : CallEvaluateExpression(path, op, literal, payload)
    \/ \E payload \in Payloads, path \in PathStrings \cup {""} :
          CallGetNestedValue(payload, path)
    \/ \E template \in TemplateStrings, payload \in Payloads, sprite \in {Sprite1, Sprite2} :
          CallRender(template, payload, sprite)
    \/ \E request \in GithubValidateRequests, secret \in ValidateSecrets :
          CallGithubValidate(request, secret)
    \/ \E request \in SlackValidateRequests, secret \in ValidateSecrets :
          CallSlackValidate(request, secret)
    \/ \E variant \in {"agentmail", "generic"}, body \in ValidateBodies :
          \E sender \in ValidateSecrets \cup {"guess", ""}, secret \in ValidateSecrets :
              CallValidate(variant, body, sender, secret)
    \/ \E payload \in Payloads \cup
                       { Obj(("type" :> Str("url_verification")) @@ ("challenge" :> Str("c1"))),
                         Obj("type" :> Str("url_verification")),
                         Obj(("type" :> Str("event_callback"))
                                 @@ ("event" :> Obj("type" :> Str("ping")))),
                         Obj(("type" :> Str("event_callback")) @@ ("event" :> EmptyObj)),
                         Obj(("type" :> Str("event_callback")) @@ ("event" :> Null)),
                         Obj("type" :> Str("event_callback")),
                         Obj("type" :> Str("message")),
                         Obj("type" :> Num(1)) } :
          CallGetSlackEventType(payload)

SpecCalls == InitCalls /\ [][NextCalls]_vars


(***************************************************************************)
(* Properties of the scheduler.                                            *)
(***************************************************************************)
\* the running timers created for automation id
TimersOf(id) == {h \in DOMAIN timers : timers[h].id = id}

\* a reconciliation whose load succeeded has just returned
SyncDone == lastOp.kind = "sync" /\ lastOp.loaded

\* the cron automations of the catalog the last reconciliation fetched
FetchedCron ==
    {lastOp.fetched[i] : i \in {j \in 1..Len(lastOp.fetched) :
                                   isCronSource(lastOp.fetched[j].source)}}

\* C5: each automation id has at most one timer that was created and not
\* stopped, and that timer is the one scheduledTasks records for the id; an
\* id that a reconciliation registered again has exactly one running timer.
C5_OneTimerPerId ==
    /\ \A id \in AutomationIds : Cardinality(TimersOf(id)) <= 1
    /\ \A h \in DOMAIN timers :
          timers[h].id \in DOMAIN scheduledTasks /\ scheduledTasks[timers[h].id] = h
    /\ SyncDone =>
          \A id \in DOMAIN lastOp.before \cap DOMAIN scheduledTasks :
              Cardinality(TimersOf(id)) = 1

\* a reconciliation has registered again an id that was already registered
C5_Witness ==
    /\ SyncDone
    /\ \E id \in DOMAIN lastOp.before \cap DOMAIN scheduledTasks :
          /\ lastOp.before[id] \in lastOp.stopped
          /\ TimersOf(id) = {scheduledTasks[id]}

\* C6: after a reconciliation whose load succeeded, every id of the live-set
\* is the id of a cron automation of the fetched catalog, and the timer of
\* every id that left the live-set has been stopped.
C6_DropsAbsentIds ==
    SyncDone =>
        /\ \A id \in DOMAIN scheduledTasks : \E a \in FetchedCron : a.id = id
        /\ \A id \in DOMAIN lastOp.before \ DOMAIN scheduledTasks :
              /\ lastOp.before[id] \in lastOp.stopped
              /\ lastOp.before[id] \notin DOMAIN timers
              /\ TimersOf(id) = {}

\* a reconciliation dropped an id whose automation is now a webhook automation
C6_Witness ==
    /\ SyncDone
    /\ \E id \in DOMAIN lastOp.before \ DOMAIN scheduledTasks :
          \E i \in 1..Len(lastOp.fetched) :
              lastOp.fetched[i].id = id /\ isWebhookSource(lastOp.fetched[i].source)

\* the ids that were registered before the last reconciliation and whose
\* fetched automation is a cron automation with the schedule of their timer
UnchangedIds ==
    {id \in DOMAIN lastOp.before :
        \E a \in FetchedCron :
            a.id = id /\ a.source.schedule = lastOp.timersBefore[lastOp.before[id]].schedule}

\* C7 as claimed: a reconciliation leaves the timer of an id with an
\* unchanged schedule untouched: the same handle, not stopped.
C7_Claimed ==
    SyncDone =>
        \A id \in UnchangedIds :
            /\ id \in DOMAIN scheduledTasks
            /\ scheduledTasks[id] = lastOp.before[id]
            /\ lastOp.before[id] \notin lastOp.stopped

\* C7 amended: a reconciliation keeps an id with an unchanged schedule
\* registered with one running timer of the same schedule, but this timer is
\* a new one and the timer recorded before has been stopped.
C7_Replaced ==
    SyncDone =>
        \A id \in UnchangedIds :
            /\ id \in DOMAIN scheduledTasks
            /\ TimersOf(id) = {scheduledTasks[id]}
            /\ timers[scheduledTasks[id]].schedule
                  = lastOp.timersBefore[lastOp.before[id]].schedule
            /\ scheduledTasks[id] # lastOp.before[id]
            /\ lastOp.before[id] \in lastOp.stopped
            /\ lastOp.before[id] \notin DOMAIN timers

C7_Witness == SyncDone /\ UnchangedIds # {}

\* C8 as claimed: after a reconciliation, a cron automation whose fetched
\* schedule is invalid is not in the live-set and has no running timer.
C8_Claimed ==
    SyncDone =>
        \A a \in FetchedCron :
            ~cronValidate(a.source.schedule) =>
                a.id \notin DOMAIN scheduledTasks /\ TimersOf(a.id) = {}

\* C9 as claimed: when an administrative create, update or delete has
\* completed, a reconciliation that will read the new catalog is under way.
C9_Claimed ==
    lastOp.kind \in {"adminPost", "adminDelete"} =>
        \E c \in DOMAIN syncs : syncs[c].pc = "list"

\* C10 as claimed: a timer firing dispatches the automation definition that
\* the catalog stores at the time of the dispatch.
C10_Claimed ==
    lastOp.kind = "fire" => lastOp.automation = catalog[lastOp.id]


(***************************************************************************)
(* Properties of the dispatcher.                                           *)
(***************************************************************************)
Responded == req.pc = "responded"

\* the handler has loaded the catalog and filtered it
Filtered == req.pc \in {"execute", "responded"} /\ req.filtered

Positions(event) == {i \in 1..Len(req.trace) : req.trace[i] = event}

\* C1: a request whose validation fails is answered 401 with no catalog load
\* and no execute call; every catalog load and every execute call of a
\* request comes after its validation has returned true.
C1_ValidationFirst ==
    req.pc # "idle" =>
        /\ (Positions("validate") # {} /\ ~req.isValid) =>
              /\ Responded /\ req.response.status = 401
              /\ req.trace = <<"validate">>
        /\ (Responded /\ req.response.status = 401) => req.trace = <<"validate">>
        /\ \A i \in Positions("load") \cup Positions("execute") :
              req.isValid /\ \E j \in Positions("validate") : j < i

\* a request with a wrong signature has been rejected
C1_Witness ==
    /\ Responded /\ req.response.status = 401
    /\ ~req.isValid /\ req.trace = <<"validate">>

\* the ids of the automations of a list
IdsOf(automations) == {automations[i].id : i \in 1..Len(automations)}

\* the catalog automations the claim selects for adapter s, event label e
\* and payload p
Selected(automations, s, e, p) ==
    {a \in {automations[i] : i \in 1..Len(automations)} :
        /\ a.source.type # "cron" /\ "events" \in DOMAIN a.source
        /\ a.source.type = s
        /\ e.t = "string" /\ \E i \in 1..Len(a.source.events) : a.source.events[i] = e.s
        /\ evaluateMatches(MatchOf(a), p)}

\* C2: the automations passed to executeAll are exactly the loaded
\* automations that are webhook-typed, of the adapter's type, list the event
\* label and match the payload; one with match [] and source
\* {github, [ping]} is dispatched on ping and not on pong.
C2_FilterExact ==
    Filtered =>
        /\ {req.matchingAutomations[i] : i \in 1..Len(req.matchingAutomations)}
              = Selected(req.automations, req.request.source, req.eventType, req.payload)
        /\ Cardinality(IdsOf(req.matchingAutomations)) = Len(req.matchingAutomations)
        /\ \A i \in 1..Len(req.automations) :
              LET a == req.automations[i]
              IN  (/\ MatchOf(a) = Expressions(<<>>)
                   /\ a.source = [type |-> "github", events |-> <<"ping">>]
                   /\ req.request.source = "github")
                  => (a.id \in IdsOf(req.matchingAutomations) <=> req.eventType = Str("ping"))

\* on event ping one loaded automation is dispatched and another is not
C2_Witness ==
    /\ Filtered
    /\ req.eventType = Str("ping")
    /\ Len(req.matchingAutomations) = 1
    /\ Len(req.automations) = 2
    /\ MatchOf(req.matchingAutomations[1]) = Expressions(<<>>)

\* C3: once the catalog load has succeeded, the response is 200 exactly when
\* no automation matched or every result is a success, and 500 exactly when
\* some result is a failure.
C3_AggregateStatus ==
    (Responded /\ Filtered) =>
        LET n == Len(req.matchingAutomations)
            failure == \E i \in 1..n : ~req.results[i].success
        IN  /\ Len(req.results) = n
            /\ req.response.status \in {200, 500}
            /\ req.response.status = 500 <=> failure
            /\ req.response.status = 200 <=> (n = 0 \/ \A i \in 1..n : req.results[i].success)

\* a dispatch with one success and one failure has been answered
C3_Witness ==
    /\ Responded /\ Filtered
    /\ req.response.status = 500
    /\ \E i, j \in 1..Len(req.results) : req.results[i].success /\ ~req.results[j].success

\* C4: executeAll returns one result for every input automation, in input
\* order, result i carrying the id of automation i, whatever executions fail;
\* when one of two executions fails the response reports failure and holds
\* both results.
C4_OneResultEach ==
    (Responded /\ Filtered /\ Len(req.matchingAutomations) > 0) =>
        LET n == Len(req.matchingAutomations)
        IN  /\ Len(req.response.results) = n
            /\ \A i \in 1..n :
                  /\ req.response.results[i] # Pending
                  /\ req.response.results[i].automationId = req.matchingAutomations[i].id
            /\ (\E i, j \in 1..n : /\ req.response.results[i].success
                                   /\ ~req.response.results[j].success)
                  => req.response.status = 500

\* two automations matched, the first failed and the second succeeded
C4_Witness ==
    /\ Responded /\ Filtered
    /\ Len(req.response.results) = 2
    /\ ~req.response.results[1].success /\ req.response.results[2].success
    /\ req.response.status = 500


\* C22: the event-type label the dispatcher filters by comes from where the
\* adapter defines it: for agentmail it is the payload's event_type, so a
\* payload with event_type message.received reaches the filter under that
\* label and an automation listing it is dispatched.
C22_Claimed ==
    (Responded /\ req.request.source = "agentmail"
        /\ req.request.body = "{\"event_type\":\"message.received\"}")
        => /\ req.filtered
           /\ req.eventType = Str("message.received")

\* C23: there is one endpoint per adapter: a POST to /webhook/<name> for
\* github, slack, agentmail and generic resolves to the adapter and is never
\* rejected as an unknown source.
C23_Claimed ==
    (Responded /\ req.request.source \in {"github", "slack", "agentmail", "generic"})
        => ~(req.response.status = 400 /\ req.response.message = "Unknown source")

(***************************************************************************)
(* Properties of the match evaluator and the path resolver.                *)
(***************************************************************************)
MatchesReturned == lastOp.kind = "evaluateMatches"

\* C11: for every payload, an absent or null one included, evaluateMatches
\* returns true when the list of expressions is empty or undefined.
C11_EmptyListMatches ==
    (MatchesReturned /\ (~lastOp.expressions.defined \/ lastOp.expressions.list = <<>>))
        => lastOp.result = TRUE

\* the empty list has been evaluated against an absent payload
C11_Witness ==
    /\ MatchesReturned
    /\ lastOp.expressions = Expressions(<<>>)
    /\ lastOp.payload = Undefined
    /\ lastOp.result = TRUE

\* the expressions of list in the order perm
Permuted(list, perm) == [i \in 1..Len(list) |-> list[perm[i]]]

\* C12: for a non-empty list, evaluateMatches is the conjunction of the
\* evaluations of the expressions one by one against the same payload, and
\* so returns the same for every permutation of the list.
C12_ConjunctionOfEach ==
    (MatchesReturned /\ lastOp.expressions.defined /\ Len(lastOp.expressions.list) > 0) =>
        LET list == lastOp.expressions.list
        IN  /\ lastOp.result =
                  (\A i \in 1..Len(list) :
                      evaluateExpression(Chars(list[i]), ContextOf(lastOp.payload)))
            /\ \A perm \in Permutations(1..Len(list)) :
                  evaluateMatches(Expressions(Permuted(list, perm)), lastOp.payload)
                      = lastOp.result

\* a list whose first expression holds and whose second does not
C12_Witness ==
    /\ MatchesReturned
    /\ Len(lastOp.expressions.list) = 2
    /\ evaluateExpression(Chars(lastOp.expressions.list[1]), ContextOf(lastOp.payload))
    /\ ~evaluateExpression(Chars(lastOp.expressions.list[2]), ContextOf(lastOp.payload))
    /\ lastOp.result = FALSE

\* the expression contains == or !=
HasOperator(expression) ==
    IndexOfPair(expression, "=", "=", 1) # 0 \/ IndexOfPair(expression, "!", "=", 1) # 0

\* the automation carries an expression that contains neither operator
Malformed(automation) ==
    /\ MatchOf(automation).defined
    /\ \E i \in 1..Len(MatchOf(automation).list) :
          ~HasOperator(Chars(MatchOf(automation).list[i]))

\* C13: an expression containing neither == nor != evaluates to false
\* without raising: an automation carrying one is never dispatched, and the
\* other automations of the same dispatch are filtered and executed as usual.
C13_MalformedFailsClosed ==
    Filtered =>
        /\ \A i \in 1..Len(req.automations) :
              LET a == req.automations[i]
              IN  IF Malformed(a)
                  THEN /\ ~evaluateMatches(MatchOf(a), req.payload)
                       /\ a.id \notin IdsOf(req.matchingAutomations)
                  ELSE a.id \in IdsOf(req.matchingAutomations)
                          <=> Matching(a, req.request.source, req.eventType, req.payload)
        /\ Cardinality(Positions("execute")) = Len(req.matchingAutomations)
        /\ Responded => req.response.status \in {200, 500}

\* one automation with a malformed expression is left out and the other
\* automation of the catalog has been executed
C13_Witness ==
    /\ Filtered /\ Responded
    /\ Len(req.automations) = 2
    /\ \E i \in 1..2 : Malformed(req.automations[i])
    /\ Len(req.matchingAutomations) = 1
    /\ ~Malformed(req.matchingAutomations[1])
    /\ Positions("execute") # {}
    /\ req.results[1].success

ExpressionReturned == lastOp.kind = "evaluateExpression"

\* the value tree's own value at the dotted path: absent from the first
\* missing key, scalar or null on
RECURSIVE TreeWalk(_, _, _)
TreeWalk(current, parts, i) ==
    IF i > Len(parts) THEN current
    ELSE IF current.t # "object" THEN Undefined
    ELSE TreeWalk(OwnProp(current, parts[i]), parts, i + 1)

TreeValue(root, path) == TreeWalk(root, Split(Chars(path), "."), 1)

\* the literal is a string in double quotes
IsQuoted(literal) ==
    LET cs == Chars(literal)
    IN  Len(cs) >= 2 /\ cs[1] = "\"" /\ cs[Len(cs)] = "\""

QuotedText(literal) == SubSeq(Chars(literal), 2, Len(Chars(literal)) - 1)

\* C14: payload.<path> == "<s>" is true when the payload's value at the path
\* is the string s, and false when it is another string or the path is
\* absent.
C14_Claimed ==
    (ExpressionReturned /\ lastOp.op \in {" == ", "=="} /\ IsQuoted(lastOp.literal)) =>
        LET value == TreeValue(ContextOf(lastOp.payload), lastOp.path)
        IN  /\ value.t = "string" =>
                  (lastOp.result <=> Chars(value.s) = QuotedText(lastOp.literal))
            /\ value.t = "undefined" => lastOp.result = FALSE

\* C15: an expression <path> == <literal> is evaluated as the equality of
\* the resolved path value and the parsed literal, and <path> != <literal>
\* as their inequality, whatever the text of the literal.
C15_Claimed ==
    ExpressionReturned =>
        LET equal == LooseEquals(getNestedValue(ContextOf(lastOp.payload), Chars(lastOp.path)),
                                 parseLiteral(Chars(lastOp.literal)))
        IN  lastOp.result = IF lastOp.op \in {" == ", "=="} THEN equal ELSE ~equal

\* C16: getNestedValue returns for every tree and path, and returns absent
\* once a segment is a missing key or the value reached is a scalar or null,
\* for that path and for every longer one.
C16_Claimed ==
    lastOp.kind = "getNestedValue" =>
        /\ lastOp.result # Throws
        /\ TreeValue(lastOp.obj, lastOp.path) = Undefined => lastOp.result = Undefined


(***************************************************************************)
(* Properties of the template renderer.                                    *)
(***************************************************************************)
RenderReturned == lastOp.kind = "render"

\* the pieces of the templates made of text and {{dotted.path}} tokens
TextPiece(text) == [token |-> FALSE, s |-> text]
PathPiece(path) == [token |-> TRUE, s |-> path]
Pieces ==
       ("hello {{payload.user.name}}" :> <<TextPiece("hello "), PathPiece("payload.user.name")>>)
    @@ ("{{payload.action}} and {{payload.user.name}}" :>
            <<PathPiece("payload.action"), TextPiece(" and "), PathPiece("payload.user.name")>>)
    @@ ("cd {{sprite.workdir}}" :> <<TextPiece("cd "), PathPiece("sprite.workdir")>>)
    @@ ("{{sprite.name}}" :> <<PathPiece("sprite.name")>>)
    @@ ("{{payload}}" :> <<PathPiece("payload")>>)
    @@ ("deploy" :> <<TextPiece("deploy")>>)

\* the text a piece stands for in the context
PieceText(piece, context) ==
    IF ~piece.token THEN Chars(piece.s)
    ELSE LET value == TreeValue(context, piece.s)
         IN  IF IsNullish(value) THEN <<>> ELSE Stringify(value)

HasTag(template) == IndexOfPair(Chars(template), "{", "{", 1) # 0

\* C18: render returns a template without token unchanged, and raises for
\* no template: a malformed token is left as text or rendered as an
\* unresolved path.
C18_Claimed ==
    RenderReturned =>
        /\ lastOp.result.ok
        /\ ~HasTag(lastOp.template) => lastOp.result.out = Chars(lastOp.template)


(***************************************************************************)
(* Properties of the adapters.                                             *)
(***************************************************************************)
GithubReturned == lastOp.kind = "githubValidate"

\* the signature header the request carries was made over body b with key k
SignedWith(request, name, k, b) ==
    /\ HasHeader(request, name)
    /\ request.headers[name].digest = createHmac(k, <<b>>)

\* C19: the github adapter's validate returns true exactly when
\* X-Hub-Signature-256 is sha256= followed by the hex HMAC-SHA256 of the
\* request body under the secret; a signature over another body, of another
\* length or made with another secret gives false.
C19_GithubValidateExact ==
    GithubReturned =>
        LET request == lastOp.request
            name == "X-Hub-Signature-256"
        IN  /\ lastOp.result <=>
                  (/\ HasHeader(request, name)
                   /\ request.headers[name] = GithubSignature(lastOp.secret, request.body))
            /\ (\E k \in ValidateSecrets \cup {"guess"}, b \in ValidateBodies :
                   SignedWith(request, name, k, b) /\ (b # request.body \/ k # lastOp.secret))
                  => ~lastOp.result
            /\ (/\ HasHeader(request, name)
                /\ request.headers[name].length
                      # Len(Chars("sha256=")) + HexDigestLength)
                  => ~lastOp.result

\* a request signed over its body with the secret has been accepted
C19_Witness ==
    /\ GithubReturned
    /\ SignedWith(lastOp.request, "X-Hub-Signature-256", lastOp.secret, lastOp.request.body)
    /\ lastOp.result = TRUE

\* the string is a decimal integer
IsInteger(string) ==
    LET cs == Chars(string)
    IN  cs # <<>> /\ \A i \in 1..Len(cs) : IsDigit(cs[i])

\* C20: the slack adapter's validate returns true only when
\* X-Slack-Request-Timestamp is an integer time t with |now - t| <= 300; a
\* correctly signed request with a timestamp outside the window, or with a
\* timestamp that is not a number, is rejected.
C20_Claimed ==
    (lastOp.kind = "slackValidate" /\ lastOp.result) =>
        LET timestamp == Header(lastOp.request, "X-Slack-Request-Timestamp")
        IN  /\ IsInteger(timestamp)
            /\ Abs(Now - DigitsValue(Chars(timestamp))) <= MAX_REQUEST_AGE_SECONDS

\* the request carries the signature or secret that its adapter expects for
\* the secret
Authentic(request, secret) ==
    CASE request.source = "github" ->
            /\ HasHeader(request, "X-Hub-Signature-256")
            /\ request.headers["X-Hub-Signature-256"] = GithubSignature(secret, request.body)
      [] request.source = "slack" ->
            /\ HasHeader(request, "X-Slack-Request-Timestamp")
            /\ HasHeader(request, "X-Slack-Signature")
            /\ request.headers["X-Slack-Signature"]
                  = SlackSignature(secret, request.headers["X-Slack-Request-Timestamp"],
                                   request.body)
      [] request.source = "agentmail" ->
            /\ HasHeader(request, "X-Agentmail-Signature")
            /\ request.headers["X-Agentmail-Signature"]
                  = Signature("", createHmac(secret, <<request.body>>))
      [] request.source = "generic" ->
            /\ HasHeader(request, "X-Webhook-Secret")
            /\ request.headers["X-Webhook-Secret"] = secret

\* C21: validate of every adapter (github, slack, agentmail, generic)
\* returns false, without throwing, for a request that lacks its signature
\* or secret header or whose signature does not correspond to the secret.
C21_Claimed ==
    (lastOp.kind \in {"githubValidate", "slackValidate", "validate"}
        /\ ~Authentic(lastOp.request, lastOp.secret))
        => lastOp.result = FALSE

(***************************************************************************)
(* Properties of the request path, the Executor and the timers.            *)
(***************************************************************************)

\* C24: a request for a source without registered adapter is rejected, and
\* one for a registered adapter whose secret is not configured is answered
\* with a server-side error; in both cases validate is not called, the
\* catalog is not accessed and the Executor is not invoked.
C24_RejectedBeforeValidate ==
    req.pc # "idle" =>
        /\ req.request.source \notin adapters =>
              /\ Responded /\ req.response.status = 400
              /\ req.trace = <<>> /\ ~req.filtered
        /\ (req.request.source \in adapters /\ WebhookSecret(req.request.source) = "") =>
              /\ Responded /\ req.response.status = 500
              /\ req.response.message = "Webhook secret not configured"
              /\ req.trace = <<>> /\ ~req.filtered

\* a correctly signed github request has been answered while
\* GITHUB_WEBHOOK_SECRET is not set
C24_Witness ==
    /\ Responded
    /\ req.request.source = "github"
    /\ env.GITHUB_WEBHOOK_SECRET = ""
    /\ Authentic(req.request, GithubSecret)
    /\ req.response.status = 500
    /\ req.trace = <<>>

UrlVerificationBodies == {"{\"type\":\"url_verification\",\"challenge\":\"c1\"}",
                          "{\"type\":\"url_verification\",\"challenge\":\"c2\"}"}

\* C25: a validated slack request whose payload has type url_verification and
\* a string challenge is answered with exactly that challenge; on its path
\* the catalog is not loaded, no automation is filtered and execute is not
\* called, whatever the catalog holds; a challenge is echoed only after
\* validate has returned true.
C25_HandshakeBypasses ==
    /\ (req.pc # "idle" /\ req.request.source = "slack"
            /\ req.request.body \in UrlVerificationBodies) =>
          /\ \A i \in 1..Len(req.trace) : req.trace[i] = "validate"
          /\ ~req.filtered
          /\ req.matchingAutomations = <<>> /\ req.results = <<>>
          /\ (Responded /\ req.isValid) =>
                /\ req.response.status = 200
                /\ "challenge" \in DOMAIN req.response
                /\ req.response.challenge =
                       JsonTable[req.request.body].o["challenge"]
    /\ (Responded /\ "challenge" \in DOMAIN req.response) =>
          /\ req.isValid
          /\ req.trace = <<"validate">>
          /\ req.request.source = "slack"
          /\ req.request.body \in UrlVerificationBodies

\* the challenge c2 has been echoed while the catalog holds a slack automation
C25_Witness ==
    /\ Responded
    /\ "challenge" \in DOMAIN req.response
    /\ req.response.challenge = Str("c2")
    /\ \E id \in DOMAIN catalog :
          /\ catalog[id] # NoAutomation
          /\ catalog[id].source.type = "slack"

\* C26: when SPRITES_TOKEN is not configured, execute returns at once a
\* result with success = false for its automation: the template is not
\* rendered and no outbound call is issued.
C26_NoTokenFailsAtOnce ==
    (Filtered /\ env.SPRITES_TOKEN = "") =>
        /\ Responded
        /\ req.pending = {}
        /\ \A i \in 1..Len(req.matchingAutomations) :
              LET automation == req.matchingAutomations[i]
                  start == executeStart(automation, req.payload, env.SPRITES_TOKEN)
              IN  /\ ~start.rendered
                  /\ ~start.call
                  /\ req.fetches[i] = 0
                  /\ req.results[i] = [automationId |-> automation.id, success |-> FALSE,
                                       error |-> "SPRITES_TOKEN not configured"]

\* without token, an automation whose template cannot be rendered has failed
\* with the message of the token
C26_Witness ==
    /\ Responded /\ Filtered
    /\ env.SPRITES_TOKEN = ""
    /\ \E i \in 1..Len(req.matchingAutomations) :
          /\ req.matchingAutomations[i].run = "bad {{payload.action"
          /\ req.results[i].error = "SPRITES_TOKEN not configured"

ExecuteErrors ==
    {"SPRITES_TOKEN not configured", "Sprites API error: 500 - boom", "fetch failed",
     "Unclosed tag"}

\* C27: execute never raises: a non-success status gives a failure result
\* that carries the response body, a network error or an exception of render
\* gives a failure result that carries the error message; the failure of one
\* automation keeps no sibling of the dispatch from being issued and from
\* reporting its own result.
C27_FailuresAreResults ==
    Filtered =>
        LET n == Len(req.matchingAutomations)
        IN  /\ Len(req.results) = n /\ Len(req.fetches) = n
            /\ \A i \in 1..n :
                  LET automation == req.matchingAutomations[i]
                      start == executeStart(automation, req.payload, env.SPRITES_TOKEN)
                  IN  /\ req.fetches[i] = (IF start.call THEN 1 ELSE 0)
                      /\ IF i \in req.pending
                         THEN start.call /\ req.results[i] = Pending
                         ELSE IF start.call
                         THEN req.results[i] \in
                                  {executeFinish(automation, o) : o \in FetchOutcomes}
                         ELSE req.results[i] = start.result
                      /\ (i \notin req.pending /\ ~req.results[i].success) =>
                            /\ req.results[i].automationId = automation.id
                            /\ req.results[i].error \in ExecuteErrors
            /\ (Responded /\ n > 0) =>
                  /\ req.pending = {}
                  /\ req.response.results = req.results
                  /\ req.response.message \in {"One or more automations failed",
                                               "All automations executed successfully"}

\* render threw for the first of two matched automations and the call of the
\* second was issued and succeeded
C27_Witness ==
    /\ Responded /\ Filtered
    /\ Len(req.matchingAutomations) = 2
    /\ req.results[1].error = "Unclosed tag"
    /\ req.fetches = <<0, 1>>
    /\ req.results[2].success

\* C28: within one dispatch at most one outbound call is issued for each
\* matched automation, exactly one when SPRITES_TOKEN is configured and the
\* template renders, and no call is issued again after a failure.
C28_OneCallEach ==
    Filtered =>
        /\ Len(req.fetches) = Len(req.matchingAutomations)
        /\ \A i \in 1..Len(req.matchingAutomations) :
              LET automation == req.matchingAutomations[i]
                  context == Obj([k \in {"payload", "sprite"} |->
                                     IF k = "payload" THEN req.payload
                                     ELSE SpriteValue(automation.sprite)])
              IN  /\ req.fetches[i] <= 1
                  /\ req.fetches[i] = 1 <=>
                        (env.SPRITES_TOKEN # "" /\ render(Chars(automation.run), context).ok)

\* two calls were issued, both failed and the dispatch was answered
C28_Witness ==
    /\ Responded /\ Filtered
    /\ req.fetches = <<1, 1>>
    /\ req.results[1].error = "Sprites API error: 500 - boom"
    /\ req.results[2].error = "fetch failed"

\* C29: when the load of the catalog fails during a webhook dispatch, at the
\* listing or at the fetch of one automation, the dispatch is answered with a
\* server error and execute is called for no automation, not even for those
\* already fetched.
C29_LoadFailureAborts ==
    lastOp.kind = "loadError" =>
        /\ Responded
        /\ req.response.status = 500
        /\ req.response.message = "Failed to load automations"
        /\ req.response.results = <<>>
        /\ ~req.filtered
        /\ req.matchingAutomations = <<>>
        /\ req.fetches = <<>> /\ req.results = <<>>
        /\ \A i \in 1..Len(req.trace) : req.trace[i] # "execute"

\* the load failed after it had fetched an automation that matches the
\* request, with SPRITES_TOKEN configured
C29_Witness ==
    /\ lastOp.kind = "loadError"
    /\ env.SPRITES_TOKEN # ""
    /\ \E i \in 1..Len(req.load.automations) : IsMatching(req, req.load.automations[i])

\* C30: a firing of a registered timer calls execute once for its automation
\* with no payload; a failure of that call is only logged: the firing leaves
\* the timer running and the live-set as it was, so that the timer fires
\* again, and it calls nothing a second time.
C30_FiringOnlyLogs ==
    [][lastOp'.kind = "fire" =>
          LET h == lastOp'.handle
              automation == lastOp'.automation
              start == executeStart(automation, Undefined, env.SPRITES_TOKEN)
          IN  /\ h \in DOMAIN timers
              /\ automation = timers[h].automation
              /\ timers' = timers
              /\ scheduledTasks' = scheduledTasks
              /\ lastOp'.called = start.call
              /\ IF start.call
                 THEN lastOp'.result \in {executeFinish(automation, o) : o \in FetchOutcomes}
                 ELSE lastOp'.result = start.result
              /\ lastOp'.result.automationId = automation.id
              /\ h \in DOMAIN timers']_vars

\* a timer of the live-set has fired, its outbound call has failed and the
\* timer is still running under its id
C30_Witness ==
    /\ lastOp.kind = "fire"
    /\ lastOp.called /\ ~lastOp.result.success
    /\ lastOp.id \in DOMAIN scheduledTasks
    /\ scheduledTasks[lastOp.id] = lastOp.handle
    /\ lastOp.handle \in DOMAIN timers

\* C31: in a dispatch with at least one matched automation the response is
\* built only when every matched automation has its result: no response
\* while an outbound call of the dispatch is pending, and a first failure
\* does not answer early.
C31_JoinsAllExecutions ==
    (Filtered /\ Len(req.matchingAutomations) > 0) =>
        /\ Responded <=> req.pending = {}
        /\ req.pending # {} => req.response = NoResponse
        /\ Responded =>
              /\ Len(req.response.results) = Len(req.matchingAutomations)
              /\ \A i \in 1..Len(req.response.results) :
                    /\ req.response.results[i] # Pending
                    /\ req.response.results[i] = req.results[i]

\* the call of one matched automation has failed while the call of the other
\* is pending, and no response has been sent
C31_Witness ==
    /\ Filtered /\ req.pc = "execute"
    /\ req.fetches = <<1, 1>>
    /\ \E i \in {1, 2} :
          /\ i \notin req.pending /\ ~req.results[i].success
          /\ (3 - i) \in req.pending
    /\ req.response = NoResponse

\* the cron automations the last reconciliation fetched, in the order of the
\* fetch
FetchedCronSeq == SelectSeq(lastOp.fetched, IsCronAutomation)

\* C32: after a reconciliation whose load succeeded, every fetched cron
\* automation with a valid schedule is in the live-set with a running timer
\* of its schedule, wherever automations with invalid schedules stand in the
\* catalog, and registered + failed is the number of fetched cron automations.
C32_InvalidLeavesOthers ==
    SyncDone =>
        /\ \A i \in 1..Len(FetchedCronSeq) :
              LET a == FetchedCronSeq[i]
              IN  cronValidate(a.source.schedule) =>
                     /\ a.id \in DOMAIN scheduledTasks
                     /\ scheduledTasks[a.id] \in DOMAIN timers
                     /\ timers[scheduledTasks[a.id]] = NewTimer(a)
        /\ lastOp.registered + lastOp.failed = Len(FetchedCronSeq)
        /\ lastOp.registered =
              Cardinality({i \in 1..Len(FetchedCronSeq) :
                              cronValidate(FetchedCronSeq[i].source.schedule)})

\* the first fetched cron automation has an invalid schedule and the second,
\* with a valid one, has been registered
C32_Witness ==
    /\ SyncDone
    /\ Len(FetchedCronSeq) = 2
    /\ ~cronValidate(FetchedCronSeq[1].source.schedule)
    /\ cronValidate(FetchedCronSeq[2].source.schedule)
    /\ FetchedCronSeq[2].id \in DOMAIN scheduledTasks
    /\ lastOp.registered = 1 /\ lastOp.failed = 1

\* C34: when syncCronJobs calls overlap, each suspended at its load, every id
\* has at most one running timer, every running timer is the one the live-set
\* records for its id, and the mutations of a call are those of one run of
\* the drop and register loops on the live-set as it was when the call
\* resumed.
C34_OverlapKeepsOneTimer ==
    /\ \A id \in AutomationIds : Cardinality(TimersOf(id)) <= 1
    /\ \A h \in DOMAIN timers :
          /\ timers[h].id \in DOMAIN scheduledTasks
          /\ scheduledTasks[timers[h].id] = h
    /\ \A id \in DOMAIN scheduledTasks : scheduledTasks[id] \in DOMAIN timers
    /\ SyncDone =>
          LET r == syncApply([tasks |-> lastOp.before, timers |-> lastOp.timersBefore,
                              stopped |-> {}], lastOp.fetched)
          IN  /\ scheduledTasks = r.st.tasks
              /\ timers = r.st.timers
              /\ lastOp.stopped = r.st.stopped

\* a call that had listed the catalog before an id was stored has returned
\* after an overlapping call that had registered this id: it has dropped the
\* id and stopped its timer, and every id left has its one recorded timer
C34_Witness ==
    /\ SyncDone
    /\ scheduledTasks # EmptyMap
    /\ \E id \in DOMAIN lastOp.before \ DOMAIN scheduledTasks :
          /\ catalog[id] # NoAutomation
          /\ lastOp.timersBefore[lastOp.before[id]].automation = catalog[id]
          /\ TimersOf(id) = {}

\* C36: when the load of a reconciliation fails, syncCronJobs returns
\* {registered: 0, failed: 0} and leaves the live-set and every timer as they
\* were: no timer is stopped, dropped or created.
C36_FailedLoadChangesNothing ==
    [][(lastOp'.kind = "sync" /\ ~lastOp'.loaded) =>
          /\ lastOp'.registered = 0 /\ lastOp'.failed = 0
          /\ scheduledTasks' = scheduledTasks
          /\ timers' = timers
          /\ lastOp'.stopped = {}]_vars

\* the load of a reconciliation has failed while the live-set holds an id
\* that the catalog does not hold any more
C36_Witness ==
    /\ lastOp.kind = "sync" /\ ~lastOp.loaded
    /\ \E id \in DOMAIN scheduledTasks :
          /\ catalog[id] = NoAutomation
          /\ scheduledTasks[id] \in DOMAIN timers

\* the ids of the cron automations with a valid schedule that the catalog
\* holds
ValidCronIds ==
    {id \in AutomationIds :
        /\ catalog[id] # NoAutomation
        /\ isCronSource(catalog[id].source)
        /\ cronValidate(catalog[id].source.schedule)}

\* C35 as claimed: when every syncCronJobs call has returned and the catalog
\* has not changed since the latest call began, the keys of the live-set are
\* the ids of the valid cron automations of the catalog.  No administrative
\* operation follows the beginning of the last call.
C35_Claimed ==
    (syncs = EmptyMap /\ syncCalls = MaxSyncCalls) => DOMAIN scheduledTasks = ValidCronIds

\* C37: the handling of a webhook request with its executions, a timer
\* firing and an administrative catalog operation leave the keys and the
\* timer handles of the live-set unchanged.
C37_LiveSetUntouched ==
    [][lastOp'.kind \in {"webhook", "loadError", "fire", "adminPost", "adminDelete"} =>
          /\ scheduledTasks' = scheduledTasks
          /\ timers' = timers]_vars

\* a webhook dispatch has issued a call and has been answered, the automation
\* a1 has been replaced by a webhook automation, and the live-set still holds
\* the running timer of a1
C37_Witness ==
    /\ Responded /\ Filtered
    /\ \E i \in 1..Len(req.fetches) : req.fetches[i] = 1
    /\ catalog["a1"] # NoAutomation
    /\ isWebhookSource(catalog["a1"].source)
    /\ "a1" \in DOMAIN scheduledTasks
    /\ scheduledTasks["a1"] \in DOMAIN timers

\* C38: validate reads the request body without consuming it. For each of
\* the four adapters the body of the request is unread when validate has
\* returned; a request that validate accepted reaches parsePayload with its
\* body unread, and the payload the handler goes on with is the decoding of
\* the body of the request, the text the signature was computed over (a body
\* that is not JSON makes request.json() throw and the request is answered 500).
C38_ValidateLeavesBody ==
    /\ \A sourceName \in {"github", "slack", "agentmail", "generic"} :
           ~bodyUsedAfterValidate(sourceName, FALSE)
    /\ req.pc = "validate" => ~req.bodyUsed
    /\ req.pc = "parse" => req.isValid /\ ~req.bodyUsed
    /\ (req.pc \notin {"idle", "validate", "parse"} /\ req.isValid) =>
           /\ req.bodyUsed
           /\ IF JsonTable[req.request.body] = Throws
              THEN req.payload = Undefined /\ req.response.status = 500
              ELSE req.payload = JsonTable[req.request.body]

C38_Witness ==
    /\ req.pc = "load"
    /\ req.isValid
    /\ req.bodyUsed
    /\ req.payload = JsonTable[req.request.body]
    /\ req.payload # Throws

\* C39 (as stated): the extraction of the slack event type is total. A
\* payload of type event_callback whose event has a string type yields that
\* type; an event_callback whose event is null or has no type yields
\* "unknown"; any other payload with a string type yields that type and every
\* other payload yields "unknown"; no payload makes the extraction throw.
C39_Claimed ==
    lastOp.kind = "getSlackEventType" =>
        LET payload == lastOp.payload
            callback == HasString(payload, "type") /\ payload.o["type"].s = "event_callback"
                            /\ "event" \in DOMAIN payload.o
        IN  /\ lastOp.result # Throws
            /\ lastOp.result.t = "string"
            /\ IF callback
               THEN lastOp.result =
                        IF payload.o["event"].t = "object"
                              /\ HasString(payload.o["event"], "type")
                        THEN payload.o["event"].o["type"]
                        ELSE Str("unknown")
               ELSE IF HasString(payload, "type") THEN lastOp.result = payload.o["type"]
               ELSE lastOp.result = Str("unknown")

\* C40: end to end, the Executor is invoked for a request only if the source
\* of the request is in the registry, the secret of that source is
\* configured and the request carries the signature computed with that
\* secret over its own body; a request for a source outside the registry,
\* or signed with another secret, or unsigned, leads to no execution and no
\* outbound call.
C40_ExecutionNeedsProof ==
    req.pc # "idle" =>
        LET proved == /\ req.request.source \in adapters
                      /\ WebhookSecret(req.request.source) # ""
                      /\ Authentic(req.request, WebhookSecret(req.request.source))
        IN  ~proved =>
                /\ Positions("execute") = {}
                /\ req.matchingAutomations = <<>>
                /\ \A i \in 1..Len(req.fetches) : req.fetches[i] = 0
                /\ req.pc # "execute"

\* a request signed with the configured secret has caused an outbound call,
\* and the catalog held a matching automation
C40_Witness ==
    /\ req.pc = "execute"
    /\ Authentic(req.request, WebhookSecret(req.request.source))
    /\ Positions("execute") # {}
    /\ \E i \in 1..Len(req.fetches) : req.fetches[i] = 1

\* C33: when the catalog load returns and every issued outbound call
\* completes, every webhook request that was received is eventually
\* answered; and a dispatch is answered only when none of its outbound calls
\* is still pending: the handler has no timeout that answers earlier.
C33_EveryRequestAnswered ==
    /\ (req.pc \notin {"idle", "responded"}) ~> Responded
    /\ [](Responded => req.pending = {})

\* a dispatch with two outbound calls has been answered after both completed
C33_Witness ==
    /\ Responded /\ Filtered
    /\ req.fetches = <<1, 1>>
    /\ req.pending = {}
    /\ \A i \in 1..2 : req.results[i] # Pending

=========================================================================
